---- MODULE Spec2Model ----
(***************************************************************************)
(* Model of the staged AI-generation pipeline: the two request entry       *)
(* points (backend/api/views.py, backend/app/routers/ai.py), the event     *)
(* generator stream_project_creation they drive, the generation stages of  *)
(* backend/app/ai_service_v2.py and the file storage of                    *)
(* backend/app/file_handler.py.                                            *)
(*                                                                         *)
(* Text is a sequence of one-character strings.  `trace' is the            *)
(* chronological log of one request: the events yielded to the client      *)
(* (kind "event"), the Gateway calls (kind "call"), the provider           *)
(* construction (kind "construct"), the registry insert (kind "db_create"),*)
(* the namespace creation (kind "mkdir") and the artifact writes (kind     *)
(* "write").                                                               *)
(***************************************************************************)
EXTENDS Integers, Sequences, FiniteSets, TLC

\* ---------------------------------------------------------------- bounds
\* longest todo list a model reply carries
MaxTodo == 6

\* longest file content written to the storage on its own
MaxContentLen == 3

\* ------------------------------------------------------------- constants
DEFAULT_TOKEN_LIMIT == 30000
CHARS_PER_TOKEN == 4
\* absent values: Python None / a missing dict key
None == "None"
NoInt == -1

\* ------------------------------------------------------------------ text
Whitespace == {" ", "\t", "\n", "\r"}

RECURSIVE LStrip(_)
LStrip(s) ==
    IF s = <<>> THEN <<>>
    ELSE IF Head(s) \in Whitespace THEN LStrip(Tail(s)) ELSE s

RECURSIVE RStrip(_)
RStrip(s) ==
    IF s = <<>> THEN <<>>
    ELSE IF s[Len(s)] \in Whitespace THEN RStrip(SubSeq(s, 1, Len(s) - 1)) ELSE s

\* str.strip()
Strip(s) == RStrip(LStrip(s))

\* s[:n]
Prefix(s, n) == SubSeq(s, 1, IF Len(s) < n THEN Len(s) ELSE n)

estimate_tokens(text) == Len(text) \div CHARS_PER_TOKEN

StartsWith(s, pat) == Len(s) >= Len(pat) /\ SubSeq(s, 1, Len(pat)) = pat

\* index of the first occurrence of pat in s at or after i, 0 when there is none
Find(s, pat, i) ==
    LET hits == {k \in i..(Len(s) - Len(pat) + 1) : SubSeq(s, k, k + Len(pat) - 1) = pat}
    IN IF hits = {} THEN 0 ELSE CHOOSE k \in hits : \A m \in hits : k <= m

\* `pat in s`
Contains(s, pat) == Find(s, pat, 1) # 0

\* s.split(pat)[0]
BeforeFirst(s, pat) ==
    LET k == Find(s, pat, 1) IN IF k = 0 THEN s ELSE SubSeq(s, 1, k - 1)

\* everything after the first occurrence of pat (pat occurs in s)
AfterFirst(s, pat) ==
    LET k == Find(s, pat, 1) IN SubSeq(s, k + Len(pat), Len(s))

\* s.split(pat)[1]: between the first and the second occurrence of pat
SecondPart(s, pat) == BeforeFirst(AfterFirst(s, pat), pat)

\* s.split("\n")
RECURSIVE SplitLines(_)
SplitLines(s) ==
    LET k == Find(s, <<"\n">>, 1)
    IN IF k = 0 THEN << s >>
       ELSE << SubSeq(s, 1, k - 1) >> \o SplitLines(SubSeq(s, k + 1, Len(s)))

\* s.replace(pat, rep)
RECURSIVE Replace(_, _, _)
Replace(s, pat, rep) ==
    LET k == Find(s, pat, 1)
    IN IF k = 0 THEN s
       ELSE SubSeq(s, 1, k - 1) \o rep \o Replace(SubSeq(s, k + Len(pat), Len(s)), pat, rep)

\* str.lower()
Lower(s) ==
    LET UpperCase == <<"A", "B", "C", "D", "E", "F", "G", "H", "I", "J", "K", "L", "M",
                       "N", "O", "P", "Q", "R", "S", "T", "U", "V", "W", "X", "Y", "Z">>
    IN
    LET LowerChar(c) ==
            LET LowerCase == <<"a", "b", "c", "d", "e", "f", "g", "h", "i", "j", "k", "l", "m",
                               "n", "o", "p", "q", "r", "s", "t", "u", "v", "w", "x", "y", "z">>
            IN
            IF \E i \in 1..26 : UpperCase[i] = c
            THEN LowerCase[CHOOSE i \in 1..26 : UpperCase[i] = c]
            ELSE c
    IN
            [i \in 1..Len(s) |-> LowerChar(s[i])]

\* --------------------------------------------------------------- inputs
Variants == {"django", "fastapi"}

\* request prompts: empty, whitespace-only, an ordinary prompt
Prompts == { <<>>, <<" ", " ">>,
             <<"C", "a", "f", "e", " ", "s", "i", "t", "e">> }

\* how a Gateway call can fail
CallFailures == {"timeout", "server_error"}

\* the style stage writing under the name of the markup artifact
ArtifactFilesOneName == <<"index.html", "index.html", "script.js">>

ArtifactFiles == <<"index.html", "style.css", "script.js">>
ALLOWED_FILES == {"index.html", "style.css", "script.js"}

Thinking(m) == [kind |-> "event", type |-> "thinking", message |-> m]

ErrorEvent(m) == [kind |-> "event", type |-> "error", message |-> m]

\* one provider.chat_completion call; outcome.cause is None when it returned,
\* parsed tells whether the stage could read the reply in the form it asked for
GatewayCall(stage, outcome, parsed) ==
    [kind |-> "call", stage |-> stage, ok |-> (outcome.cause = None),
     cause |-> outcome.cause, parsed |-> (outcome.cause = None /\ parsed)]

Failed(outcome) == outcome.cause # None

IsEvent(e) == e.kind = "event"
IsEventOf(e, type) == e.kind = "event" /\ e.type = type
IsTerminal(e) == e.kind = "event" /\ e.type \in {"complete", "error"}

\* the event stream the client receives
Events(tr) == SelectSeq(tr, IsEvent)

\* ------------------------------------------------------------------ state
VARIABLES
    variant,              \* which entry point / pipeline revision serves the request
    prompt,               \* request field
    pc,                   \* pipeline state (section 4.5) or entry/terminal position
    response,             \* HTTP answer of the entry point: None, "400" or "stream"
    trace,                \* chronological log, see above
    token_lookup,         \* get_remaining_tokens in this process: "untried", "ok", "raises"
    total_tokens_used,
    intent_result,        \* what detect_user_intent returned; intent "unset" before
    project_id,
    description,
    todo_list,
    project_requirements,
    html_code, css_code, js_code,
    projects,             \* project registry: id -> record
    storage,              \* file storage: id -> (filename -> content)
    transport,            \* the consumer of the event generator: "stays" or "may_stop"
    env,                  \* process environment of a provider / storage call
    call,                 \* the provider / storage operation under way, with its arguments
    returned              \* what that operation returned or raised

locals == <<total_tokens_used, intent_result, project_id, description, todo_list,
            project_requirements, html_code, css_code, js_code>>
world == <<projects, storage>>
\* the state of the provider and storage operations run on their own
units == <<env, call, returned>>
request == <<variant, prompt, transport, units>>
vars == <<variant, prompt, pc, response, trace, token_lookup, total_tokens_used,
          intent_result, project_id, description, todo_list, project_requirements,
          html_code, css_code, js_code, projects, storage, transport, env, call, returned>>

NoFun == [x \in {} |-> x]

NoCall == [op |-> "none", name |-> <<>>, http |-> None]
NoResult == [status |-> "none"]

Idle ==
    \* no provider / storage operation is under way
    LET NoEnv == [kind |-> "none"]
    IN
    /\ env = NoEnv
    /\ call = NoCall
    /\ returned = NoResult

\* the generator and the world before the first request
FreshRun ==
    LET NoIntentYet == [intent |-> "unset", response |-> <<>>, total_tokens |-> NoInt]
    IN
    /\ token_lookup = "untried"
    /\ pc = "request"
    /\ response = None
    /\ trace = <<>>
    /\ total_tokens_used = 0
    /\ intent_result = NoIntentYet
    /\ project_id = None
    /\ description = <<>>
    /\ todo_list = <<>>
    /\ project_requirements = None
    /\ html_code = <<>>
    /\ css_code = <<>>
    /\ js_code = <<>>
    /\ projects = NoFun
    /\ storage = NoFun

\* one request served to a consumer that iterates the stream to its end
Init ==
    /\ variant \in Variants
    /\ prompt \in Prompts
    /\ transport = "stays"
    /\ FreshRun
    /\ Idle

\* one request served to a consumer that may stop iterating the stream at any
\* suspension point of the generator
InitTransport ==
    /\ variant \in Variants
    /\ prompt \in Prompts
    /\ transport = "may_stop"
    /\ FreshRun
    /\ Idle

\* ------------------------------------------------- generator and consumer
\* stream_project_creation is an async generator: its body runs only while
\* the consumer (run_async_generator / StreamingResponse) asks for the next
\* event.  A stage action computes the state `next' the generator reaches
\* when the consumer iterates through the whole stage.
Now ==
    [pc |-> pc, trace |-> trace, token_lookup |-> token_lookup,
     total_tokens_used |-> total_tokens_used, intent_result |-> intent_result,
     project_id |-> project_id, description |-> description,
     todo_list |-> todo_list, project_requirements |-> project_requirements,
     html_code |-> html_code, css_code |-> css_code, js_code |-> js_code,
     projects |-> projects, storage |-> storage]

Assign(next) ==
    /\ pc' = next.pc
    /\ trace' = next.trace
    /\ token_lookup' = next.token_lookup
    /\ total_tokens_used' = next.total_tokens_used
    /\ intent_result' = next.intent_result
    /\ project_id' = next.project_id
    /\ description' = next.description
    /\ todo_list' = next.todo_list
    /\ project_requirements' = next.project_requirements
    /\ html_code' = next.html_code
    /\ css_code' = next.css_code
    /\ js_code' = next.js_code
    /\ projects' = next.projects
    /\ storage' = next.storage

\* the places of the stage's part of the log where the generator is suspended
\* and has more to run: after a yield, or in a sleep that follows other work
SuspensionPoints(v, next) ==
    \* the generator awaits asyncio.sleep right after these entries; only the
    \* ASGI transport can cancel it there (run_until_complete runs through it)
    LET SleepsAfter(w, e) == w = "fastapi" /\ e.kind \in {"db_create", "mkdir"}
    IN
    LET EndStates == {"finalized", "failed", "early_exit", "rejected"}
    IN
    { p \in (Len(trace) + 1)..Len(next.trace) :
        /\ IsEvent(next.trace[p]) \/ SleepsAfter(v, next.trace[p])
        /\ ~(p = Len(next.trace) /\ next.pc \in EndStates) }

\* the last entry before the first event after place p
RECURSIVE BeforeNextEvent(_, _)
BeforeNextEvent(tr, p) ==
    IF p = Len(tr) \/ IsEvent(tr[p + 1]) THEN p ELSE BeforeNextEvent(tr, p + 1)

\* how far the generator gets when its consumer stops at place p.  The
\* abandoned generator is closed: GeneratorExit (CancelledError in a sleep)
\* is raised at p.  `except Exception' does not catch it; the bare except
\* around the tokens_update yield does, and the body runs on to its next
\* yield, where the close gives up.
RanTo(v, tr, p) ==
    \* the yield of tokens_update sits inside `try: ... except: pass'
    LET InBareExcept(w, e) == w = "django" /\ IsEventOf(e, "tokens_update")
    IN
                   IF InBareExcept(v, tr[p]) THEN BeforeNextEvent(tr, p) ELSE p

Touches(tr, from, to, kinds) == \E i \in from..to : tr[i].kind \in kinds

\* the state left behind when the consumer stops at place p of the stage:
\* the log up to where the generator got, the effects of that much of it,
\* and no generator frame any more (the locals stay as on entering the stage)
Stopped(v, next, p) ==
    \* the transport gives up the stream (the client went away): log entry of
    \* the place where the generator was suspended at that moment
    LET ConsumerStops == [kind |-> "disconnect"]
    IN
    LET q == RanTo(v, next.trace, p)
        from == Len(trace) + 1
    IN [Now EXCEPT
          !.pc = "disconnected",
          !.trace = SubSeq(next.trace, 1, p) \o << ConsumerStops >>
                      \o SubSeq(next.trace, p + 1, q),
          !.projects = IF Touches(next.trace, from, q, {"db_create"})
                       THEN next.projects ELSE projects,
          !.storage = IF Touches(next.trace, from, q, {"mkdir", "write"})
                      THEN next.storage ELSE storage,
          !.token_lookup = IF \E i \in from..q :
                                   \/ IsEventOf(next.trace[i], "tokens_update")
                                   \/ next.trace[i].kind = "write"
                           THEN next.token_lookup ELSE token_lookup]

\* one stage of the generator as its consumer drives it: through the whole
\* stage, or, when the consumer may stop, up to a suspension point
Deliver(next) ==
    \/ Assign(next)
    \/ /\ transport = "may_stop"
       /\ \E p \in SuspensionPoints(variant, next) : Assign(Stopped(variant, next, p))

\* ------------------------------------------------------------- providers
\* identifiers as the request carries them
ID_langchain == <<"l", "a", "n", "g", "c", "h", "a", "i", "n">>
ID_langchain_ollama == <<"l", "a", "n", "g", "c", "h", "a", "i", "n", "-", "o", "l", "l", "a", "m", "a">>
ID_langchain_groq == <<"l", "a", "n", "g", "c", "h", "a", "i", "n", "-", "g", "r", "o", "q">>
ID_langchain_openai == <<"l", "a", "n", "g", "c", "h", "a", "i", "n", "-", "o", "p", "e", "n", "a", "i">>
ID_groq == <<"g", "r", "o", "q">>
ID_openai == <<"o", "p", "e", "n", "a", "i">>
ID_ollama == <<"o", "l", "l", "a", "m", "a">>

\* provider_name values of a request: the identifiers get_provider knows, in
\* other letter case, padded, empty, and unknown ones
ProviderNames ==
    { ID_langchain, ID_langchain_ollama, ID_langchain_groq, ID_langchain_openai,
      ID_groq, ID_openai, ID_ollama,
      <<"G", "r", "o", "q">>, <<"O", "L", "L", "A", "M", "A">>, <<"L", "a", "n", "g", "C", "h", "a", "i", "n", "-", "O", "p", "e", "n", "A", "I">>,
      <<" ", "g", "r", "o", "q">>, <<"c", "l", "a", "u", "d", "e">>, <<>> }

\* the process a provider is constructed in: which API keys are set, which
\* package (if any) is not installed, how the Ollama server answers the probe
ProviderEnvs ==
    \* what GET {base_url}/api/tags does when OllamaProvider is constructed
    LET Probes == {"200", "500", "ConnectionError", "Timeout", "Exception"}
    IN
    \* the packages the providers import when they are constructed
    LET Packages == {"groq", "openai", "requests", "langchain_ollama", "langchain_groq",
                     "langchain_openai"}
    IN
    [ kind : {"process"}, GROQ_API_KEY : BOOLEAN, OPENAI_API_KEY : BOOLEAN,
      missing : Packages \cup {None}, probe : Probes ]

NoProvider == [class |-> None, model_type |-> None, warning |-> None]

Provider(class, model_type, warning) ==
    [class |-> class, model_type |-> model_type, warning |-> warning]

\* a call that returned a provider / raised an exception.  message is the
\* text of the exception in words, about the value it quotes, listed the
\* identifiers it enumerates
Returned(provider) ==
    [status |-> "returned", error |-> None, message |-> <<>>, about |-> <<>>,
     listed |-> <<>>, provider |-> provider, content |-> <<>>]

Raised(error, message) ==
    [status |-> "raised", error |-> error, message |-> message, about |-> <<>>,
     listed |-> <<>>, provider |-> NoProvider, content |-> <<>>]

ModuleNotFound(package) == Raised("ImportError", <<"No", "module", "named", package>>)

KeyNotSet(key) ==
    <<key, "environment", "variable", "is", "not", "set">>

\* the constructor without the check of the key
GroqProviderWithoutKeyCheck(e) ==
    IF e.missing = "groq" THEN ModuleNotFound("groq")
    ELSE Returned(Provider("GroqProvider", None, None))

\* GroqProvider.__init__: the import is outside any try
GroqProvider(e) ==
    IF e.missing = "groq" THEN ModuleNotFound("groq")
    ELSE IF ~e.GROQ_API_KEY THEN Raised("ValueError", KeyNotSet("GROQ_API_KEY"))
    ELSE Returned(Provider("GroqProvider", None, None))

\* OpenAIProvider.__init__
OpenAIProvider(e) ==
    IF e.missing = "openai"
    THEN Raised("ValueError", <<"OpenAI", "package", "not", "installed">>)
    ELSE IF ~e.OPENAI_API_KEY THEN Raised("ValueError", KeyNotSet("OPENAI_API_KEY"))
    ELSE Returned(Provider("OpenAIProvider", None, None))

\* the warning OllamaProvider.__init__ prints for a probe outcome
OllamaWarning(probe) ==
    CASE probe = "200" -> None
      [] probe = "500" -> "server returned status, but continuing"
      [] probe \in {"ConnectionError", "Timeout"} -> "server not available, tried when used"
      [] OTHER -> "connection check failed, but continuing"

\* the probe failure propagating out of the constructor
OllamaProviderFailingOnProbe(e) ==
    IF e.missing = "requests" THEN ModuleNotFound("requests")
    ELSE IF e.probe \in {"ConnectionError", "Timeout"}
    THEN Raised("ConnectionError", <<"Ollama", "server", "not", "available">>)
    ELSE Returned(Provider("OllamaProvider", None, OllamaWarning(e.probe)))

\* OllamaProvider.__init__: every outcome of the probe is caught
OllamaProvider(e) ==
    IF e.missing = "requests" THEN ModuleNotFound("requests")
    ELSE Returned(Provider("OllamaProvider", None, OllamaWarning(e.probe)))

\* LangChainProvider.__init__ / _initialize_llm
LangChainProvider(model_type, e) ==
    LET FailedToInitialize(mt, cause) ==
            <<"Failed", "to", "initialize", "LangChain", mt, "provider:">> \o cause
    IN
    LET LangChainPackage(mt) ==
            CASE mt = "ollama" -> "langchain_ollama"
              [] mt = "groq" -> "langchain_groq"
              [] mt = "openai" -> "langchain_openai"
              [] OTHER -> None
    IN
    IF model_type \notin {"ollama", "groq", "openai"}
    THEN Raised("ValueError",
                FailedToInitialize(model_type, <<"Unknown", "LangChain", "model_type">>))
    ELSE IF e.missing = LangChainPackage(model_type)
    THEN Raised("ValueError", <<"LangChain", "package", "not", "installed">>)
    ELSE IF model_type = "groq" /\ ~e.GROQ_API_KEY
    THEN Raised("ValueError", FailedToInitialize("groq", KeyNotSet("GROQ_API_KEY")))
    ELSE IF model_type = "openai" /\ ~e.OPENAI_API_KEY
    THEN Raised("ValueError", FailedToInitialize("openai", KeyNotSet("OPENAI_API_KEY")))
    ELSE Returned(Provider("LangChainProvider", model_type, None))

get_provider(name, e) ==
    LET UnknownProvider(provider_name) ==
            \* the identifiers the message of get_provider enumerates after "Supported:"
            LET SupportedListing ==
                    << ID_langchain, ID_langchain_groq, ID_langchain_openai, ID_groq, ID_openai,
                       ID_ollama >>
            IN
            [Raised("ValueError", <<"Unknown", "provider:", "Supported:">>)
                EXCEPT !.about = provider_name, !.listed = SupportedListing]
    IN
    LET provider_name == Lower(name)
    IN IF provider_name = ID_langchain \/ provider_name = ID_langchain_ollama
       THEN LangChainProvider("ollama", e)
       ELSE IF provider_name = ID_langchain_groq THEN LangChainProvider("groq", e)
       ELSE IF provider_name = ID_langchain_openai THEN LangChainProvider("openai", e)
       ELSE IF provider_name = ID_groq THEN GroqProvider(e)
       ELSE IF provider_name = ID_openai THEN OpenAIProvider(e)
       ELSE IF provider_name = ID_ollama THEN OllamaProvider(e)
       ELSE UnknownProvider(provider_name)

ReplyContent == <<"o", "k">>

ReturnedContent(content) == [Returned(NoProvider) EXCEPT !.content = content]

OllamaChatCompletion(http) ==
    \* the exception raised inside the try block of OllamaProvider.chat_completion
    LET OllamaRaisedInTry(h) ==
            CASE h = "Timeout" -> [type |-> "Timeout", message |-> <<"Read", "timed", "out">>]
              [] h = "ConnectionError" ->
                    [type |-> "ConnectionError", message |-> <<"Connection", "refused">>]
              [] h = "status_500" ->
                    [type |-> "Exception",
                     message |-> <<"Ollama", "API", "error", "(status", "500):">>]
              [] h = "empty" ->
                    [type |-> "Exception",
                     message |-> <<"Ollama", "returned", "empty", "response">>]
    IN
    \* the names bound at module level in ai_providers.py; `requests` is
    \* imported inside OllamaProvider.__init__ only
    LET ModuleNames == {"json", "os", "Dict", "List", "Optional", "Any", "load_dotenv",
                        "GROQ_API_KEY", "OPENAI_API_KEY", "OLLAMA_BASE_URL"}
    IN
    \* the except clauses of OllamaProvider.chat_completion, tried in order; the
    \* first one evaluates requests.exceptions.Timeout
    LET OllamaExceptClauses(names, raised) ==
            IF "requests" \notin names
            THEN Raised("NameError", <<"name", "requests", "is", "not", "defined">>)
            ELSE IF raised.type = "Timeout"
            THEN Raised("Exception", <<"Ollama", "request", "timed", "out", "after", "300",
                                       "seconds">>)
            ELSE IF raised.type = "ConnectionError"
            THEN Raised("Exception", <<"Cannot", "connect", "to", "Ollama", "server">>)
            ELSE Raised("Exception", <<"Ollama", "error:">> \o raised.message)
    IN
    IF http = "ok" THEN ReturnedContent(ReplyContent)
    ELSE OllamaExceptClauses(ModuleNames, OllamaRaisedInTry(http))

\* LangChainProvider.chat_completion: an empty answer is returned as it is
LangChainChatCompletion(model_type, http) ==
    \* str(e) of what llm.invoke raises
    LET LangChainRaised(h) ==
            CASE h = "Timeout" -> <<"Read", "timeout">>
              [] h = "ConnectionError" -> <<"Connection", "refused">>
              [] OTHER -> <<"status", "500">>
    IN
    IF http = "ok" THEN ReturnedContent(ReplyContent)
    ELSE IF http = "empty" THEN ReturnedContent(<<>>)
    ELSE IF http \in {"Timeout", "ConnectionError"}
    THEN IF model_type = "ollama"
         THEN Raised("Exception", <<"Cannot", "connect", "to", "Ollama", "at">>)
         ELSE Raised("Exception", <<"LangChain", model_type, "connection", "error:">>
                                    \o LangChainRaised(http))
    ELSE Raised("Exception", <<"LangChain", model_type, "error:">> \o LangChainRaised(http))

\* GroqProvider / OpenAIProvider.chat_completion: what the client raises
\* passes through; an answer without content is returned as it is
ClientChatCompletion(http) ==
    IF http = "ok" THEN ReturnedContent(ReplyContent)
    ELSE IF http = "empty" THEN ReturnedContent(<<>>)
    ELSE Raised(http, <<http>>)

\* the "usage" of the dictionary chat_completion returns
usage(provider, message_chars, content, reported) ==
    CASE provider.class = "OllamaProvider" ->
            \* prompt_eval_count and eval_count of the answer, and their sum
            [prompt_tokens |-> reported.prompt_tokens,
             completion_tokens |-> reported.completion_tokens,
             total_tokens |-> reported.prompt_tokens + reported.completion_tokens]
      [] provider.class = "LangChainProvider" ->
            \* an estimate from the characters of the messages and of the answer
            LET total_chars == message_chars + Len(content)
                estimated_tokens == total_chars \div 4
            IN [prompt_tokens |-> estimated_tokens \div 2,
                completion_tokens |-> estimated_tokens \div 2,
                total_tokens |-> estimated_tokens]
      [] OTHER ->
            \* GroqProvider / OpenAIProvider: the three counts of response.usage
            reported

chat_completion(provider, http) ==
    CASE provider.class = "OllamaProvider" -> OllamaChatCompletion(http)
      [] provider.class = "LangChainProvider" ->
            LangChainChatCompletion(provider.model_type, http)
      [] OTHER -> ClientChatCompletion(http)

\* the pipeline's variables, idle while a provider or the storage is driven
\* on its own
run == <<variant, prompt, transport, pc, response, trace, token_lookup,
         total_tokens_used, intent_result, project_id, description, todo_list,
         project_requirements, html_code, css_code, js_code, projects, storage>>

NoRun ==
    /\ variant = "django"
    /\ prompt = <<>>
    /\ transport = "stays"
    /\ FreshRun

InitProviders ==
    /\ NoRun
    /\ env \in ProviderEnvs
    /\ call = NoCall
    /\ returned = NoResult

\* provider = get_provider(provider_name)
CallGetProvider ==
    /\ call.op = "none"
    /\ \E name \in ProviderNames :
         /\ call' = [op |-> "get_provider", name |-> name, http |-> None]
         /\ returned' = get_provider(name, env)
    /\ UNCHANGED <<run, env>>

\* the first provider.chat_completion(...) on the provider just constructed
CallChatCompletion ==
    \* what the backend does with one chat request: an answer, an answer without
    \* content, a non-200 status, no answer in time, a refused connection
    LET HttpOutcomes == {"ok", "empty", "status_500", "Timeout", "ConnectionError"}
    IN
    \* len(msg["content"]) summed over the messages of the request
    LET MessageChars == {2, 6}
    IN
    \* the token counts the backend reports with its answer (an Ollama answer
    \* without the two counts reads as 0 and 0)
    LET ReportedCounts ==
            { [prompt_tokens |-> 0, completion_tokens |-> 0, total_tokens |-> 0],
              [prompt_tokens |-> 3, completion_tokens |-> 2, total_tokens |-> 5] }
    IN
    LET WithUsage(answer, u) ==
            [f \in DOMAIN answer \cup {"usage"} |-> IF f = "usage" THEN u ELSE answer[f]]
    IN
    /\ call.op = "get_provider"
    /\ returned.status = "returned"
    /\ \E http \in HttpOutcomes, chars \in MessageChars, reported \in ReportedCounts :
         LET answer == [chat_completion(returned.provider, http)
                           EXCEPT !.provider = returned.provider]
         IN /\ call' = [op |-> "chat_completion", name |-> call.name, http |-> http]
            /\ returned' = IF answer.status = "returned"
                           THEN WithUsage(answer, usage(returned.provider, chars,
                                                        answer.content, reported))
                           ELSE answer
    /\ UNCHANGED <<run, env>>

NextProviders == CallGetProvider \/ CallChatCompletion

SpecProviders == InitProviders /\ [][NextProviders]_vars

\* the explicit prompt check of an entry point; the FastAPI route has none
EntryRejects(v, p) ==
    \* -------------------------------------------------------- request surface
    \* `not prompt or not prompt.strip()`
    LET PromptIsBlank(text) == text = <<>> \/ Strip(text) = <<>>
    IN
                      v = "django" /\ PromptIsBlank(p)

\* create_project_with_ai_stream of either revision
CreateProjectWithAiStream ==
    /\ pc = "request"
    /\ IF EntryRejects(variant, prompt)
       THEN /\ response' = "400"
            /\ pc' = "rejected"
       ELSE /\ response' = "stream"
            /\ pc' = "get_provider"
    /\ UNCHANGED <<request, token_lookup, trace, locals, world>>

\* run_async_generator: the event loop of the Django transport cannot be set up
RunAsyncGeneratorSetupFails ==
    /\ pc = "get_provider"
    /\ variant = "django"
    /\ trace' = trace \o << ErrorEvent(<<"Failed to start stream">>) >>
    /\ pc' = "failed"
    /\ UNCHANGED <<request, token_lookup, response, locals, world>>

\* get_provider(provider_name) at the head of stream_project_creation
\* the message without the provider's name
FailedToInitializeUnnamed(name, made) ==
    <<"Failed to initialize provider: ">> \o made.message \o made.about

\* f'Failed to initialize {provider_name} provider: {str(provider_error)}'
FailedToInitializeProvider(name, made) ==
    <<"Failed to initialize ">> \o name \o <<" provider: ">>
        \o made.message \o made.about

GetProvider ==
    /\ pc = "get_provider"
    /\ \E name \in ProviderNames, e \in ProviderEnvs :
         LET made == get_provider(name, e)
         IN IF made.status = "returned"
            THEN /\ trace' = trace \o << [kind |-> "construct", ok |-> TRUE] >>
                 /\ pc' = "intent"
            ELSE /\ trace' = trace \o
                      << [kind |-> "construct", ok |-> FALSE, provider_name |-> name,
                          error |-> made.error],
                         ErrorEvent(FailedToInitializeProvider(name, made)) >>
                 /\ pc' = "failed"
    /\ UNCHANGED <<request, token_lookup, response, locals, world>>

\* detect_user_intent: the except branch covers a failed call, a reply that
\* json.loads rejects and a reply that is not an object
IntentFallback(p) ==
    [intent |-> "create_webpage", response |-> <<>>,
     total_tokens |-> estimate_tokens(p)]

detect_user_intent(p, outcome) ==
    IF Failed(outcome) THEN IntentFallback(p)
    ELSE IF ~outcome.parsed \/ ~outcome.isDict THEN IntentFallback(p)
    ELSE [intent |-> outcome.intent, response |-> outcome.response,
          total_tokens |-> outcome.total_tokens]

\* only the conversation intent leaves early
IsEarlyExitConversationOnly(result) == result.intent = "conversation"

\* `intent_result.get("intent") != "create_webpage"`
IsEarlyExit(result) == result.intent # "create_webpage"

IntentStage ==
    LET ConversationEvent(result) ==
            [kind |-> "event", type |-> "conversation",
             message |-> result.response, intent |-> result.intent]
    IN
    LET IntentFailures ==
            [ cause : CallFailures, parsed : {FALSE}, isDict : {FALSE}, intent : {None},
              response : {<<>>}, total_tokens : {NoInt} ]
    IN
    \* parsed replies of the intent call: the intent key may be missing (None) or
    \* outside the three intents; the usage may lack total_tokens (NoInt)
    LET IntentReplies ==
            \* ------------------------------------------------------------ stage: intent
            LET Intents == {"create_webpage", "conversation", "ideas"}
            IN
            [ cause : {None}, parsed : {TRUE}, isDict : {TRUE},
              intent : Intents \cup {"banana", None},
              response : {<<"o", "k">>},
              total_tokens : {NoInt, 3} ]
            \cup
            [ cause : {None}, parsed : {TRUE, FALSE}, isDict : {FALSE}, intent : {None},
              response : {<<>>}, total_tokens : {NoInt} ]
    IN
    /\ pc = "intent"
    /\ \E outcome \in IntentFailures \cup IntentReplies :
         LET result == detect_user_intent(prompt, outcome)
             used == IF result.total_tokens = NoInt
                     THEN estimate_tokens(prompt)
                     ELSE result.total_tokens
             head == trace \o << Thinking("Understanding your request..."),
                                 GatewayCall("intent", outcome, outcome.parsed /\ outcome.isDict) >>
             after == [Now EXCEPT !.total_tokens_used = total_tokens_used + used,
                                  !.intent_result = result]
         IN IF IsEarlyExit(result)
            THEN Deliver([after EXCEPT
                            !.trace = head \o << ConversationEvent(result) >>,
                            !.pc = "early_exit"])
            ELSE Deliver([after EXCEPT !.trace = head, !.pc = "description"])
    /\ UNCHANGED <<request, response>>

\* the except clause swallowing the exception
FailSilently(tr, message) == tr

\* the except clause at the end of stream_project_creation: one error event,
\* then the generator returns (the FastAPI revision also calls db.rollback(),
\* which undoes nothing that was committed)
Fail(tr, message) == tr \o << ErrorEvent(message) >>

\* generate_project_description of ai_service_v2: a failed call is replaced
\* by a canned sentence
generate_project_description(p, outcome) ==
    LET DescriptionFallbackPrefix ==
            <<"A", " ", "b", "e", "a", "u", "t", "i", "f", "u", "l", ",", " ", "m", "o",
              "d", "e", "r", "n", " ", "w", "e", "b", "p", "a", "g", "e", " ", "b", "a",
              "s", "e", "d", " ", "o", "n", ":", " ">>
    IN
    IF Failed(outcome) THEN DescriptionFallbackPrefix \o p
    ELSE Strip(outcome.content)

DescriptionStage ==
    LET DescriptionEvent(d) ==
            [kind |-> "event", type |-> "description", description |-> d]
    IN
    LET DescriptionFailures == [ cause : CallFailures, content : { <<>> } ]
    IN
    \* ------------------------------------------------------- stage: description
    LET DescriptionReplies ==
            [ cause : {None}, content : { <<"A", " ", "s", "i", "t", "e", ".", "\n">> } ]
    IN
    /\ pc = "description"
    /\ \E outcome \in DescriptionFailures \cup DescriptionReplies :
         LET d == generate_project_description(prompt, outcome)
         IN Deliver([Now EXCEPT
                       !.description = d,
                       !.total_tokens_used =
                           total_tokens_used + estimate_tokens(prompt \o d),
                       !.trace = trace \o
                           << Thinking("Generating project description..."),
                              GatewayCall("description", outcome, TRUE),
                              DescriptionEvent(d) >>,
                       !.pc = "todo_list"])
    /\ UNCHANGED <<request, response>>

\* --------------------------------------------------------- stage: todo list
\* one element of the JSON array: a dict whose "id" / "task" keys may be
\* missing (NoInt / hasTask = FALSE), or a value that is not a dict
TodoDict(id, hasTask, task) ==
    [isDict |-> TRUE, id |-> id, hasTask |-> hasTask, task |-> task]

\* the lists a model reply carries: well-formed lists of every length up to
\* MaxTodo, and every short list over elements with missing keys, a repeated
\* id, or no dict at all
OddItems ==
    LET NotADict == [isDict |-> FALSE, id |-> NoInt, hasTask |-> FALSE, task |-> <<>>]
    IN
            { TodoDict(NoInt, FALSE, <<>>), TodoDict(1, TRUE, <<"t">>), NotADict }

\* what the Gateway call of the todo stage can give: a failed call, or a reply
\* whose JSON is a list, a dict with a "tasks" key, or anything else;
\* iterable = FALSE is a "tasks" value that cannot be enumerated
TodoOutcomes ==
    LET TodoPayloads ==
            { [i \in 1..n |-> TodoDict(i, TRUE, <<"t", "k">>)] : n \in 0..MaxTodo }
            \cup { << a >> : a \in OddItems }
            \cup { << a, b >> : a \in OddItems, b \in OddItems }
    IN [ cause : CallFailures, parsed : {FALSE}, shape : {"other"},
         iterable : {FALSE}, data : { <<>> } ]
       \cup
       [ cause : {None}, parsed : {TRUE}, shape : {"list"},
         iterable : {TRUE}, data : TodoPayloads ]
       \cup
       [ cause : {None}, parsed : {TRUE}, shape : {"tasks_dict"},
         iterable : {TRUE}, data : { <<>>, <<TodoDict(7, TRUE, <<"x">>)>> } ]
       \cup
       [ cause : {None}, parsed : {TRUE}, shape : {"tasks_dict"},
         iterable : {FALSE}, data : { <<>> } ]
       \cup
       [ cause : {None}, parsed : {TRUE, FALSE}, shape : {"other"},
         iterable : {FALSE}, data : { <<>> } ]

\* generate_todo_list: what the pipeline receives as todo_list_data
generate_todo_list(outcome) ==
    LET DefaultTodoList ==
            << TodoDict(1, TRUE, <<"S", "e", "t", " ", "u", "p", " ", "p", "r", "o", "j",
                                   "e", "c", "t", " ", "s", "t", "r", "u", "c", "t", "u",
                                   "r", "e">>),
               TodoDict(2, TRUE, <<"C", "r", "e", "a", "t", "e", " ", "H", "T", "M", "L",
                                   " ", "s", "t", "r", "u", "c", "t", "u", "r", "e">>),
               TodoDict(3, TRUE, <<"D", "e", "s", "i", "g", "n", " ", "C", "S", "S", " ",
                                   "s", "t", "y", "l", "i", "n", "g">>),
               TodoDict(4, TRUE, <<"A", "d", "d", " ", "J", "a", "v", "a", "S", "c", "r",
                                   "i", "p", "t", " ", "f", "u", "n", "c", "t", "i", "o",
                                   "n", "a", "l", "i", "t", "y">>),
               TodoDict(5, TRUE, <<"F", "i", "n", "a", "l", "i", "z", "e", " ", "a", "n",
                                   "d", " ", "t", "e", "s", "t">>) >>
    IN
    IF Failed(outcome) \/ ~outcome.parsed \/ outcome.shape = "other"
    THEN [iterable |-> TRUE, data |-> DefaultTodoList]
    ELSE [iterable |-> outcome.iterable, data |-> outcome.data]

RECURSIVE SumItemStrLen(_)
SumItemStrLen(data) ==
    LET Digits(n) == IF n < 10 THEN 1 ELSE 2
    IN
    \* len(str(item)) of one element as Python prints it
    LET ItemStrLen(item) ==
            IF ~item.isDict THEN 1
            ELSE IF item.id # NoInt /\ item.hasTask THEN 20 + Digits(item.id) + Len(item.task)
            ELSE IF item.id # NoInt THEN 8 + Digits(item.id)
            ELSE IF item.hasTask THEN 12 + Len(item.task)
            ELSE 2
    IN
    IF data = <<>> THEN 0 ELSE ItemStrLen(Head(data)) + SumItemStrLen(Tail(data))

\* the enumerate loop over todo_list_data; stops at the first element that
\* has no .get (ok = FALSE)
RECURSIVE TodoLoop(_, _, _, _)
TodoLoop(data, idx, evs, list) ==
    LET TodoItemEvent(made) ==
            [kind |-> "event", type |-> "todo_item", todo |-> made]
    IN
    \* the todo item the pipeline builds from the idx-th element
    LET MakeTodoItem(elem, pos) ==
            [id |-> IF elem.id = NoInt THEN pos ELSE elem.id,
             task |-> IF elem.hasTask THEN elem.task ELSE <<>>,
             completed |-> FALSE]
    IN
    \* the todo_typing events of one item: partial_task = task_text[:i]
    LET TodoTyping(todo_item) ==
            [i \in 1..(Len(todo_item.task) + 1) |->
                [kind |-> "event", type |-> "todo_typing", todo_id |-> todo_item.id,
                 partial_task |-> Prefix(todo_item.task, i - 1)]]
    IN
    IF idx > Len(data) THEN [ok |-> TRUE, events |-> evs, todo_list |-> list]
    ELSE IF ~data[idx].isDict THEN [ok |-> FALSE, events |-> evs, todo_list |-> list]
    ELSE LET todo_item == MakeTodoItem(data[idx], idx)
         IN TodoLoop(data, idx + 1,
                     evs \o TodoTyping(todo_item) \o << TodoItemEvent(todo_item) >>,
                     Append(list, todo_item))

TodoStage ==
    \* ---------------------------------------------------------- trace entries
    LET Event(type) == [kind |-> "event", type |-> type]
    IN
    \* len(str(todo_list_data))
    LET TodoStrLen(tdata) ==
            IF ~tdata.iterable THEN 1
            ELSE IF tdata.data = <<>> THEN 2
            ELSE 2 + SumItemStrLen(tdata.data) + 2 * (Len(tdata.data) - 1)
    IN
    /\ pc = "todo_list"
    /\ \E outcome \in TodoOutcomes :
         LET tdata == generate_todo_list(outcome)
             head == trace \o << Thinking("Creating detailed plan..."),
                                 GatewayCall("todo_list", outcome,
                                             outcome.parsed /\ outcome.shape # "other") >>
             loop == TodoLoop(tdata.data, 1, <<>>, <<>>)
             after == [Now EXCEPT !.total_tokens_used =
                          total_tokens_used
                          + (Len(prompt) + TodoStrLen(tdata)) \div CHARS_PER_TOKEN]
         IN IF ~tdata.iterable
            THEN Deliver([after EXCEPT !.trace = Fail(head, <<"TypeError">>),
                                       !.todo_list = <<>>,
                                       !.pc = "failed"])
            ELSE IF ~loop.ok
            THEN Deliver([after EXCEPT
                            !.trace = Fail(head \o loop.events, <<"AttributeError">>),
                            !.todo_list = loop.todo_list,
                            !.pc = "failed"])
            ELSE Deliver([after EXCEPT
                            !.trace = head \o loop.events \o << Event("todo_complete") >>,
                            !.todo_list = loop.todo_list,
                            !.pc = "project_persisted"])
    /\ UNCHANGED <<request, response>>

\* ------------------------------------------------- stage: project_persisted
ProjectIds == {"p1", "p2"}

\* create_project_directory: mkdir(parents=True, exist_ok=True)
create_project_directory(st, id) ==
    IF id \in DOMAIN st THEN st
    ELSE [x \in DOMAIN st \cup {id} |-> IF x = id THEN NoFun ELSE st[x]]

\* os.linesep of the host
PosixLinesep == <<"\n">>
\* Path.write_text(content, encoding="utf-8"): text mode, newline=None, so
\* every "\n" is written as os.linesep; what the file holds
WriteText(content, linesep) == Replace(content, <<"\n">>, linesep)

\* Path.read_text(encoding="utf-8"): text mode, newline=None (universal
\* newlines), so "\r\n" and a lone "\r" are both read as "\n"
ReadText(held) == Replace(Replace(held, <<"\r", "\n">>, <<"\n">>), <<"\r">>, <<"\n">>)

\* save_file of an allowed filename on a host with the given os.linesep:
\* creates the directory, writes the text
save_file_on(linesep, st, id, filename, content) ==
    LET dir == create_project_directory(st, id)
    IN [dir EXCEPT ![id] =
          [f \in DOMAIN dir[id] \cup {filename} |->
              IF f = filename THEN WriteText(content, linesep) ELSE dir[id][f]]]

\* a write that replaces the project directory by the one file
save_file_alone(st, id, filename, content) ==
    [x \in DOMAIN st \cup {id} |->
        IF x = id THEN [f \in {filename} |-> content] ELSE st[x]]

\* the pipeline's writes, on its POSIX host
save_file(st, id, filename, content) == save_file_on(PosixLinesep, st, id, filename, content)

\* ValueError(f"Invalid filename. Allowed: {', '.join(ALLOWED_FILES.keys())}")
InvalidFilename ==
    Raised("ValueError",
           <<"Invalid", "filename.", "Allowed:", "index.html,", "style.css,", "script.js">>)

ReturnedNone == [Returned(NoProvider) EXCEPT !.status = "returned_none"]

\* get_file: None when the file does not exist
get_file(st, id, filename) ==
    IF filename \notin ALLOWED_FILES THEN InvalidFilename
    ELSE IF id \notin DOMAIN st THEN ReturnedNone
    ELSE IF filename \notin DOMAIN st[id] THEN ReturnedNone
    ELSE ReturnedContent(ReadText(st[id][filename]))

TaskComplete(list, idx) ==
    [kind |-> "event", type |-> "task_complete", task_id |-> list[idx].id,
     completed_count |-> idx, total_tasks |-> Len(list)]

\* `if len(todo_list) > idx - 1:` mark the idx-th item (1-based) and report it
TaskCompleteIfPresent(list, idx) ==
    IF Len(list) >= idx THEN << TaskComplete(list, idx) >> ELSE <<>>

MarkIfPresent(list, idx) ==
    LET MarkDone(l, n) == [l EXCEPT ![n].completed = TRUE]
    IN
    IF Len(list) >= idx THEN MarkDone(list, idx) ELSE list

\* one create_project_directory call and whether it made the namespace
Mkdir(id, ok) == [kind |-> "mkdir", project_id |-> id, ok |-> ok]

PersistStage ==
    LET ProjectCreated(id) ==
            [kind |-> "event", type |-> "project_created", project_id |-> id]
    IN
    LET NAME_PREFIX_LEN == 50
    IN
    \* `name or prompt[:50]` (the modelled requests carry no name)
    LET ProjectName(p) == Prefix(p, NAME_PREFIX_LEN)
    IN
    \* the uuid4 default of Project.id: an id no record has
    LET NewProjectId(reg) == CHOOSE id \in ProjectIds : id \notin DOMAIN reg
    IN
    /\ pc = "project_persisted"
    /\ \E db_ok \in BOOLEAN, dir_ok \in BOOLEAN :
         LET id == NewProjectId(projects)
             head == trace \o << Thinking("Setting up project structure...") >>
             created == head \o << [kind |-> "db_create", project_id |-> id],
                                   ProjectCreated(id) >>
             committed ==
                 [Now EXCEPT
                    !.projects =
                        [x \in DOMAIN projects \cup {id} |->
                            IF x = id
                            THEN [name |-> ProjectName(prompt), description |-> description]
                            ELSE projects[x]],
                    !.project_id = id]
         IN IF ~db_ok
            THEN Deliver([Now EXCEPT !.trace = Fail(head, <<"DatabaseError">>),
                                     !.pc = "failed"])
            ELSE IF ~dir_ok
            THEN Deliver([committed EXCEPT
                            !.trace = Fail(created \o << Mkdir(id, FALSE) >>, <<"OSError">>),
                            !.pc = "failed"])
            ELSE Deliver([committed EXCEPT
                            !.storage = create_project_directory(storage, id),
                            !.trace = created \o << Mkdir(id, TRUE) >>
                                        \o TaskCompleteIfPresent(todo_list, 1),
                            !.todo_list = MarkIfPresent(todo_list, 1),
                            !.pc = "requirements"])
    /\ UNCHANGED <<request, response>>

\* ------------------------------------------------------ stage: requirements
DefaultRequirements ==
    [project_type |-> "webpage", theme |-> "modern", colors |-> <<>>,
     js_functions |-> <<>>, design_reference |-> None]

\* the bare except returning a profile that names no theme
extract_project_requirements_unthemed(outcome) ==
    IF Failed(outcome) \/ ~outcome.parsed THEN [DefaultRequirements EXCEPT !.theme = None]
    ELSE outcome.value

\* extract_project_requirements: bare except -> the default profile
extract_project_requirements(outcome) ==
    IF Failed(outcome) \/ ~outcome.parsed THEN DefaultRequirements
    ELSE outcome.value

\* a keyword search that does not lower-case the prompt
detect_design_type_case_sensitive(p) ==
    LET AnyContained(s, words) == \E w \in words : Contains(s, w)
    IN IF AnyContained(p, { <<"c", "o", "f", "f", "e", "e">>, <<"c", "a", "f", "e">> })
       THEN "coffee_shop"
       ELSE IF AnyContained(p, { <<"t", "e", "c", "h">>, <<"s", "t", "a", "r", "t", "u", "p">>,
                                 <<"s", "a", "a", "s">>, <<"s", "o", "f", "t", "w", "a", "r", "e">> })
       THEN "tech_startup"
       ELSE IF AnyContained(p, { <<"p", "o", "r", "t", "f", "o", "l", "i", "o">>,
                                 <<"s", "h", "o", "w", "c", "a", "s", "e">>,
                                 <<"g", "a", "l", "l", "e", "r", "y">> })
       THEN "portfolio"
       ELSE None

\* detect_design_type_from_prompt: keyword search over the lower-cased prompt
detect_design_type_from_prompt(p) ==
    LET AnyContained(s, words) == \E w \in words : Contains(s, w)
    IN
    LET prompt_lower == Lower(p)
    IN IF AnyContained(prompt_lower,
             { <<"c", "o", "f", "f", "e", "e">>, <<"c", "a", "f", "e">>,
               <<"c", "o", "f", "f", "e", "e", " ", "s", "h", "o", "p">> })
       THEN "coffee_shop"
       ELSE IF AnyContained(prompt_lower,
             { <<"t", "e", "c", "h">>, <<"s", "t", "a", "r", "t", "u", "p">>,
               <<"s", "a", "a", "s">>, <<"s", "o", "f", "t", "w", "a", "r", "e">> })
       THEN "tech_startup"
       ELSE IF AnyContained(prompt_lower,
             { <<"p", "o", "r", "t", "f", "o", "l", "i", "o">>,
               <<"s", "h", "o", "w", "c", "a", "s", "e">>,
               <<"g", "a", "l", "l", "e", "r", "y">> })
       THEN "portfolio"
       ELSE None

\* the Django revision attaches the matching design preset to the profile
WithDesignReference(v, reqs, p) ==
    LET DESIGN_PATTERNS == {"coffee_shop", "tech_startup", "portfolio"}
    IN
    LET design_type == detect_design_type_from_prompt(p)
    IN IF v = "django" /\ design_type \in DESIGN_PATTERNS
       THEN [reqs EXCEPT !.design_reference = design_type]
       ELSE reqs

RequirementsStage ==
    LET RequirementFailures ==
            [ cause : CallFailures, parsed : {FALSE}, value : {DefaultRequirements} ]
    IN
    LET RequirementReplies ==
            [ cause : {None}, parsed : {TRUE},
              value : { [project_type |-> "coffee shop", theme |-> "dark",
                         colors |-> <<"brown">>, js_functions |-> <<"toggleMenu">>,
                         design_reference |-> None] } ]
            \cup
            [ cause : {None}, parsed : {FALSE}, value : {DefaultRequirements} ]
    IN
    /\ pc = "requirements"
    /\ \E outcome \in RequirementFailures \cup RequirementReplies :
         Deliver([Now EXCEPT
                    !.project_requirements =
                        WithDesignReference(variant, extract_project_requirements(outcome),
                                            prompt),
                    !.total_tokens_used = total_tokens_used + estimate_tokens(prompt),
                    !.trace = trace \o
                        << Thinking("Analyzing design requirements..."),
                           GatewayCall("requirements", outcome, outcome.parsed) >>,
                    !.pc = "markup"])
    /\ UNCHANGED <<request, response>>

\* ------------------------------------------------- stages: code generation
\* number of lines of the code a model reply carries
CodeLines == 2

Fence ==
    \* the backquote character (a TLA+ string cannot hold it)
    LET Backquote == "BACKQUOTE"
    IN
         <<Backquote, Backquote, Backquote>>

CodeTypes == << <<"h", "t", "m", "l">>, <<"c", "s", "s">>, <<"j", "s">> >>
CodeStageNames == <<"markup", "style", "behavior">>
\* the style and behavior stages in the wrong order
AfterCodeStageSwapped == <<"behavior", "finalize", "style">>
AfterCodeStage == <<"style", "behavior", "finalize">>

\* the exception re-raised without the wrapping message
CodeGenErrorUnwrapped(v, k, cause) == <<"Error", cause>>

CodeGenError(v, k, cause) ==
    \* code_type.upper() in the streaming generator; the literal of each
    \* generate_*_code in the non-streaming revision
    LET ArtifactLabel(w, n) ==
            IF w = "django" THEN <<"HTML", "CSS", "JS">>[n]
            ELSE <<"HTML", "CSS", "JavaScript">>[n]
    IN
                             <<"Error generating", ArtifactLabel(v, k), cause>>

\* "Remove markdown if present" for one language tag
StripFences(code, tag) ==
    IF Contains(code, Fence \o tag)
    THEN Strip(BeforeFirst(AfterFirst(code, Fence \o tag), Fence))
    ELSE IF Contains(code, Fence)
    THEN LET part == Strip(SecondPart(code, Fence))
         IN IF StartsWith(part, tag)
            THEN Strip(SubSeq(part, Len(tag) + 1, Len(part)))
            ELSE part
    ELSE code

\* the fence removal of generate_js_code
StripJsFences(code) ==
    LET JsTag == <<"j", "s">>
    IN
    LET JavaScriptTag == <<"j", "a", "v", "a", "s", "c", "r", "i", "p", "t">>
    IN
    IF Contains(code, Fence \o JavaScriptTag)
    THEN Strip(BeforeFirst(AfterFirst(code, Fence \o JavaScriptTag), Fence))
    ELSE IF Contains(code, Fence \o JsTag)
    THEN Strip(BeforeFirst(AfterFirst(code, Fence \o JsTag), Fence))
    ELSE IF Contains(code, Fence)
    THEN LET part == Strip(SecondPart(code, Fence))
         IN IF StartsWith(part, JavaScriptTag)
            THEN Strip(SubSeq(part, 11, Len(part)))
            ELSE IF StartsWith(part, JsTag)
            THEN Strip(SubSeq(part, 3, Len(part)))
            ELSE part
    ELSE code

\* "Ensure viewport meta tag" of generate_html_code
EnsureViewport(html) ==
    LET HeadTag == <<"<", "h", "e", "a", "d", ">">>
    IN
    LET HeadWithViewport ==
            <<"<", "h", "e", "a", "d", ">", "\n", " ", " ", "<", "m", "e", "t", "a",
              " ", "n", "a", "m", "e", "=", "\"", "v", "i", "e", "w", "p", "o", "r",
              "t", "\"", " ", "c", "o", "n", "t", "e", "n", "t", "=", "\"", "w", "i",
              "d", "t", "h", "=", "d", "e", "v", "i", "c", "e", "-", "w", "i", "d",
              "t", "h", ",", " ", "i", "n", "i", "t", "i", "a", "l", "-", "s", "c",
              "a", "l", "e", "=", "1", ".", "0", "\"", ">">>
    IN
    LET ViewportWord == <<"v", "i", "e", "w", "p", "o", "r", "t">>
    IN
    IF ~Contains(Lower(html), ViewportWord) /\ Contains(html, HeadTag)
    THEN Replace(html, HeadTag, HeadWithViewport)
    ELSE html

\* the artifact text the non-streaming generate_html_code / generate_css_code /
\* generate_js_code return for a model reply
GeneratedCode(k, content) ==
    CASE k = 1 -> EnsureViewport(StripFences(Strip(content), CodeTypes[1]))
      [] k = 2 -> StripFences(Strip(content), CodeTypes[2])
      [] k = 3 -> StripJsFences(Strip(content))

\* the chunks generate_code_with_streaming yields: line + "\n" per line
StreamedLines(k, content) ==
    LET lines == SplitLines(StripFences(Strip(content), CodeTypes[k]))
    IN [i \in 1..Len(lines) |-> lines[i] \o <<"\n">>]

RECURSIVE Concat(_)
Concat(chunks) == IF chunks = <<>> THEN <<>> ELSE Head(chunks) \o Concat(Tail(chunks))

RECURSIVE ReplyBody(_)
ReplyBody(n) == IF n <= 1 THEN <<"x">> ELSE <<"x", "\n">> \o ReplyBody(n - 1)

TaskStart(k) ==
    LET TaskTitles == <<"Creating HTML structure", "Designing CSS styling",
                        "Adding JavaScript functionality">>
    IN
    [kind |-> "event", type |-> "task_start", task_id |-> k + 1, task |-> TaskTitles[k]]

\* what get_remaining_tokens returns: a fixed structure
GROQ_TOKEN_LIMIT == 30000

get_remaining_tokens == [remaining |-> NoInt, limit |-> GROQ_TOKEN_LIMIT, used |-> 0]

\* token_limit = token_info.get("limit", 30000) when the lookup works,
\* token_limit = 30000 in the except branch
TokenLimit(lk) ==
    IF lk = "ok" THEN get_remaining_tokens.limit ELSE DEFAULT_TOKEN_LIMIT

\* the remainder reported without the usage taken off
RemainingTokensIgnoringUse(token_limit, used) == token_limit

\* `token_limit - total_tokens_used if token_limit else None`
RemainingTokens(token_limit, used) ==
    IF token_limit # 0 THEN token_limit - used ELSE NoInt

TokensUpdate(used) ==
    [kind |-> "event", type |-> "tokens_update",
     remaining_tokens |-> RemainingTokens(TokenLimit("ok"), used),
     token_limit |-> TokenLimit("ok")]

Write(id, file, content) ==
    [kind |-> "write", project_id |-> id, file |-> file, content |-> content]

\* get_remaining_tokens either works in this process or raises in it
LookupOutcomes(known) == IF known = "untried" THEN {"ok", "raises"} ELSE {known}

\* an artifact text that drops the line break after the last streamed line
CodeTextTrimmed(v, k, content) ==
    IF v = "django" THEN Strip(Concat(StreamedLines(k, content)))
    ELSE GeneratedCode(k, content)

\* the artifact text of stage k and the events that carry it while it is built
CodeText(v, k, content) ==
    IF v = "django" THEN Concat(StreamedLines(k, content))
    ELSE GeneratedCode(k, content)

CodeStage(k) ==
    \* what follows a successful save_file of stage k
    LET AfterSave(w, n, saved, todos) ==
            LET CodeComplete(file, content) ==
                    [kind |-> "event", type |-> "code_complete", file |-> file,
                     content |-> content, file_size |-> Len(content)]
            IN
            (IF w = "django" THEN << CodeComplete(ArtifactFiles[n], saved) >> ELSE <<>>)
            \o TaskCompleteIfPresent(todos, n + 1)
    IN
    LET CodeLineEvents(w, n, reply) ==
            LET CodeLine(file, line) ==
                    [kind |-> "event", type |-> "code_line", file |-> file, line |-> line]
            IN
            IF w = "django"
            THEN LET chunks == StreamedLines(n, reply)
                 IN [i \in 1..Len(chunks) |-> CodeLine(ArtifactFiles[n], chunks[i])]
            ELSE <<>>
    IN
    \* what a code stage emits before its Gateway call
    LET CodeStageHead(w, n) ==
            LET CodeStart(file) == [kind |-> "event", type |-> "code_start", file |-> file]
            IN
            IF w = "django"
            THEN << TaskStart(n), Thinking("Generating..."), CodeStart(ArtifactFiles[n]) >>
            ELSE << TaskStart(n), Thinking("Generating...") >>
    IN
    LET CodeFailures == [ cause : CallFailures, content : { <<>> } ]
    IN
    LET CodeReplies == [ cause : {None}, content : { ReplyBody(CodeLines) \o <<" ">> } ]
    IN
    /\ pc = CodeStageNames[k]
    /\ \E outcome \in CodeFailures \cup CodeReplies :
         LET head == trace \o CodeStageHead(variant, k)
                          \o << GatewayCall(CodeStageNames[k], outcome, TRUE) >>
         IN IF Failed(outcome)
            THEN Deliver([Now EXCEPT
                            !.trace = Fail(head, CodeGenError(variant, k, outcome.cause)),
                            !.pc = "failed"])
            ELSE LET text == CodeText(variant, k, outcome.content)
                     used == total_tokens_used + estimate_tokens(prompt \o text)
                     generated ==
                         [Now EXCEPT
                            !.total_tokens_used = used,
                            !.html_code = IF k = 1 THEN text ELSE html_code,
                            !.css_code = IF k = 2 THEN text ELSE css_code,
                            !.js_code = IF k = 3 THEN text ELSE js_code]
                 IN \E lk \in (IF variant = "django" THEN LookupOutcomes(token_lookup)
                                ELSE {token_lookup}), save_ok \in BOOLEAN :
                      LET built == head \o CodeLineEvents(variant, k, outcome.content)
                              \o (IF variant = "django" /\ lk = "ok"
                                  THEN << TokensUpdate(used) >> ELSE <<>>)
                      IN IF save_ok
                         THEN Deliver([generated EXCEPT
                                 !.token_lookup = lk,
                                 !.storage = save_file(storage, project_id,
                                                       ArtifactFiles[k], text),
                                 !.trace = built
                                     \o << Write(project_id, ArtifactFiles[k], text) >>
                                     \o AfterSave(variant, k, text, todo_list),
                                 !.todo_list = MarkIfPresent(todo_list, k + 1),
                                 !.pc = AfterCodeStage[k]])
                         ELSE Deliver([generated EXCEPT
                                 !.token_lookup = lk,
                                 !.trace = Fail(built, <<"OSError">>),
                                 !.pc = "failed"])
    /\ UNCHANGED <<request, response>>

MarkupStage == CodeStage(1)

StyleStage == CodeStage(2)

BehaviorStage == CodeStage(3)

\* ---------------------------------------------------------- stage: finalize
\* the loop starting one item late: range(5, len(todo_list))
RemainingTaskEventsFromSixth(list) ==
    [i \in 1..(IF Len(list) > 5 THEN Len(list) - 5 ELSE 0) |-> TaskComplete(list, i + 5)]

\* `for idx in range(4, len(todo_list))`: the items after the fourth
RemainingTaskEvents(list) ==
    [i \in 1..(IF Len(list) > 4 THEN Len(list) - 4 ELSE 0) |-> TaskComplete(list, i + 4)]

MarkAllFrom(list, from) ==
    [i \in 1..Len(list) |->
        IF i >= from THEN [list[i] EXCEPT !.completed = TRUE] ELSE list[i]]

CompleteEvent(id, list, d, used, token_limit) ==
    [kind |-> "event", type |-> "complete", project_id |-> id, todo_list |-> list,
     description |-> d, tokens_used |-> used, token_limit |-> token_limit,
     remaining_tokens |-> RemainingTokens(token_limit, used)]

\* the events that close a successful run
FinalEvents(id, list, d, used, token_limit) ==
    RemainingTaskEvents(list)
    \o << [kind |-> "event", type |-> "code_generated"],
          CompleteEvent(id, MarkAllFrom(list, 5), d, used, token_limit) >>

Finalize ==
    /\ pc = "finalize"
    /\ \E lk \in LookupOutcomes(token_lookup) :
         Deliver([Now EXCEPT
                    !.token_lookup = lk,
                    !.todo_list = MarkAllFrom(todo_list, 5),
                    !.trace = trace \o FinalEvents(project_id, todo_list, description,
                                                   total_tokens_used, TokenLimit(lk)),
                    !.pc = "finalized"])
    /\ UNCHANGED <<request, response>>

Filenames == ALLOWED_FILES \cup {"notes.txt"}

\* ------------------------------------------------- generators on their own
InitGenerators == NoRun /\ Idle

\* generate_todo_list(prompt, provider) for one outcome of its Gateway call
CallGenerateTodoList ==
    /\ \E outcome \in TodoOutcomes :
         /\ call' = [op |-> "generate_todo_list", outcome |-> outcome]
         /\ returned' = [status |-> "returned", value |-> generate_todo_list(outcome)]
    /\ UNCHANGED <<run, env>>

\* the model reply of a code stage: the code, bare or inside a fence that may
\* carry a language tag and may follow a sentence of introduction
CodeReply(fenced, tag, intro, body) ==
    IF fenced
    THEN (IF intro THEN <<"H", "e", "r", "e", ":", "\n">> ELSE <<>>)
         \o Fence \o tag \o <<"\n">> \o body \o <<"\n">> \o Fence
    ELSE body

\* the artifact of code stage k: generate_code_with_streaming consumed to its
\* end (django), generate_html_code / generate_css_code / generate_js_code
\* (fastapi)
CallGenerateCode ==
    LET FenceTags == { <<>>, <<"h", "t", "m", "l">>, <<"c", "s", "s">>, <<"j", "s">>,
                       <<"j", "a", "v", "a", "s", "c", "r", "i", "p", "t">> }
        Bodies == { <<"x">>, <<"a", ";", "\n", "b", ";">> }
    IN
    /\ \E v \in Variants, k \in 1..3, fenced \in BOOLEAN, tag \in FenceTags,
          intro \in BOOLEAN, body \in Bodies :
         /\ fenced \/ (tag = <<>> /\ ~intro)
         /\ call' = [op |-> "generate_code", variant |-> v, k |-> k, fenced |-> fenced,
                     tag |-> tag, intro |-> intro, body |-> body]
         /\ returned' = [status |-> "returned",
                         content |-> CodeText(v, k, CodeReply(fenced, tag, intro, body))]
    /\ UNCHANGED <<run, env>>

\* detect_design_type_from_prompt and the use the streaming pipeline makes of
\* its result, for a profile that extract_project_requirements returned
CallDetectDesignType ==
    LET DesignPrompts ==
            { <<>>,
              <<"C", "a", "f", "e", " ", "s", "i", "t", "e">>,
              <<"M", "y", " ", "C", "O", "F", "F", "E", "E", " ", "s", "h", "o", "p">>,
              <<"t", "e", "c", "h", " ", "p", "o", "r", "t", "f", "o", "l", "i", "o">>,
              <<"a", " ", "g", "a", "l", "l", "e", "r", "y">>,
              <<"s", "t", "a", "r", "t", "u", "p", " ", "c", "a", "f", "e">>,
              <<"b", "l", "o", "g">>,
              <<"S", "a", "a", "S", " ", "a", "p", "p">>,
              <<"S", "h", "o", "w", "c", "a", "s", "e">> }
        Profiles ==
            { DefaultRequirements,
              [DefaultRequirements EXCEPT !.project_type = "coffee shop", !.theme = "dark"] }
    IN
    /\ \E p \in DesignPrompts, reqs \in Profiles :
         /\ call' = [op |-> "detect_design_type", prompt |-> p, requirements |-> reqs]
         /\ returned' = [status |-> "returned",
                         value |-> detect_design_type_from_prompt(p),
                         requirements |-> WithDesignReference("django", reqs, p)]
    /\ UNCHANGED <<run, env>>

NextGenerators == CallGenerateTodoList \/ CallGenerateCode \/ CallDetectDesignType

SpecGenerators == InitGenerators /\ [][NextGenerators]_vars

\* ------------------------------------------- storage operations on their own
InitStorage ==
    LET StorageEnvs ==
            LET WindowsLinesep == <<"\r", "\n">>
            IN
                       [ kind : {"host"}, linesep : {PosixLinesep, WindowsLinesep} ]
    IN
    /\ NoRun
    /\ env \in StorageEnvs
    /\ call = NoCall
    /\ returned = NoResult

run_but_storage ==
    <<variant, prompt, transport, pc, response, trace, token_lookup,
      total_tokens_used, intent_result, project_id, description, todo_list,
      project_requirements, html_code, css_code, js_code, projects>>

\* a save_file that makes the project directory before it looks at the filename
CallSaveFileDirectoryFirst ==
    LET Texts == UNION { [1..n -> {"a", "\r", "\n"}] : n \in 0..MaxContentLen }
    IN
    /\ call.op = "none"
    /\ \E id \in ProjectIds, filename \in Filenames, content \in Texts :
         /\ call' = [op |-> "save_file", project_id |-> id, filename |-> filename,
                     content |-> content]
         /\ IF filename \notin ALLOWED_FILES
            THEN /\ returned' = InvalidFilename
                 /\ storage' = create_project_directory(storage, id)
            ELSE /\ returned' = ReturnedNone
                 /\ storage' = save_file_on(env.linesep, storage, id, filename, content)
    /\ UNCHANGED <<run_but_storage, env>>

\* save_file(project_id, filename, content)
CallSaveFile ==
    LET Contents ==
            \* characters of a file content: a letter, a carriage return, a line feed
            LET ContentChars == {"a", "\r", "\n"}
            IN
                    UNION { [1..n -> ContentChars] : n \in 0..MaxContentLen }
    IN
    /\ call.op = "none"
    /\ \E id \in ProjectIds, filename \in Filenames, content \in Contents :
         /\ call' = [op |-> "save_file", project_id |-> id, filename |-> filename,
                     content |-> content]
         /\ IF filename \notin ALLOWED_FILES
            THEN /\ returned' = InvalidFilename
                 /\ storage' = storage
            ELSE /\ returned' = ReturnedNone
                 /\ storage' = save_file_on(env.linesep, storage, id, filename, content)
    /\ UNCHANGED <<run_but_storage, env>>

\* get_file(project_id, filename) right after the save_file; call keeps the
\* arguments of that save_file as `saved`
CallGetFile ==
    /\ call.op = "save_file"
    /\ \E id \in ProjectIds, filename \in Filenames :
         /\ call' = [op |-> "get_file", project_id |-> id, filename |-> filename,
                     saved |-> call]
         /\ returned' = get_file(storage, id, filename)
    /\ UNCHANGED <<run_but_storage, storage, env>>

NextStorage == CallSaveFile \/ CallGetFile

SpecStorage == InitStorage /\ [][NextStorage]_vars

Next ==
    \/ CreateProjectWithAiStream
    \/ RunAsyncGeneratorSetupFails
    \/ GetProvider
    \/ IntentStage
    \/ DescriptionStage
    \/ TodoStage
    \/ PersistStage
    \/ RequirementsStage
    \/ MarkupStage
    \/ StyleStage
    \/ BehaviorStage
    \/ Finalize

Spec == Init /\ [][Next]_vars

\* the same pipeline under a transport that can lose its client
SpecTransport == InitTransport /\ [][Next]_vars

\* ================================================================= claims
RunOver == pc \in {"finalized", "failed", "early_exit"}

EventTypes(tr) == [i \in 1..Len(Events(tr)) |-> Events(tr)[i].type]

TerminalCount(tr) == Cardinality({i \in 1..Len(tr) : IsTerminal(tr[i])})

IsCall(e) == e.kind = "call"
IsFailedCall(e) == e.kind = "call" /\ ~e.ok
IsWrite(e) == e.kind = "write"
IsTaskComplete(e) == e.kind = "event" /\ e.type = "task_complete"

LastEvent(tr) == Events(tr)[Len(Events(tr))]

\* C1 as stated: every run of stream_project_creation that has ended emitted
\* exactly one terminal event (complete or error), and it is the last event.
C1_ExactlyOneTerminalEvent ==
    RunOver => /\ TerminalCount(trace) = 1
               /\ IsTerminal(LastEvent(trace))

\* C1 amended: a terminal event (complete or error) is always the last entry
\* of the run and there is never more than one; a run that ended as finalized
\* or failed has exactly one, and the early-exit run has none and ends with
\* its conversation event.
C1_TerminalEventIsLast ==
    /\ TerminalCount(trace) <= 1
    /\ \A i \in 1..Len(trace) : IsTerminal(trace[i]) => i = Len(trace)
    /\ pc \in {"finalized", "failed"} =>
         TerminalCount(trace) = 1 /\ IsTerminal(LastEvent(trace))
    /\ pc = "finalized" => LastEvent(trace).type = "complete"
    /\ pc = "failed" => LastEvent(trace).type = "error"
    /\ pc = "early_exit" =>
         TerminalCount(trace) = 0 /\ LastEvent(trace).type = "conversation"

C1_Witness ==
    /\ pc = "failed"
    /\ project_id # None
    /\ Len(Events(trace)) > 3

\* C2: when the intent stage returns an intent other than create_webpage, the
\* event stream is exactly thinking, conversation; no project_created and no
\* complete event, no project record and no storage namespace exist, and the
\* run has ended.
C2_EarlyExitStream ==
    intent_result.intent \notin {"unset", "create_webpage"} =>
        /\ pc = "early_exit"
        /\ EventTypes(trace) = <<"thinking", "conversation">>
        /\ projects = NoFun
        /\ storage = NoFun
        /\ \A i \in 1..Len(trace) : trace[i].kind \notin {"db_create", "mkdir", "write"}

C2_Witness ==
    /\ pc = "early_exit"
    /\ intent_result.intent = "ideas"
    /\ Len(trace) = 4

\* C3: in a run that ends in complete, the task_complete events are as many as
\* the todo list is long, their completed_count values are 1, 2, ..., n in
\* order, and total_tasks is n in each, n being the length of the todo list
\* (the one of the complete event).
C3_TaskCompleteCounts ==
    pc = "finalized" =>
        LET done == SelectSeq(trace, IsTaskComplete)
            n == Len(LastEvent(trace).todo_list)
        IN /\ n = Len(todo_list)
           /\ Len(done) = n
           /\ \A i \in 1..Len(done) :
                done[i].completed_count = i /\ done[i].total_tasks = n

C3_Witness ==
    /\ pc = "finalized"
    /\ Len(todo_list) > 5
    /\ Len(SelectSeq(trace, IsTaskComplete)) > 5

\* the order of section 4.5
PipelineOrder ==
    <<"intent", "description", "todo_list", "project_persisted", "requirements",
      "markup", "style", "behavior", "finalize", "finalized">>

IsSuccessor(a, b) ==
    \E i \in 1..(Len(PipelineOrder) - 1) : PipelineOrder[i] = a /\ PipelineOrder[i + 1] = b

\* place of an event in the order of the claim; 0 for the events it does not name
FileRank(file) ==
    CASE file = "index.html" -> 4 [] file = "style.css" -> 5 [] file = "script.js" -> 6

EventRank(e) ==
    IF e.kind # "event" THEN 0
    ELSE CASE e.type = "description" -> 1
           [] e.type \in {"todo_typing", "todo_item", "todo_complete"} -> 2
           [] e.type = "project_created" -> 3
           [] e.type \in {"code_start", "code_line", "code_complete"} -> FileRank(e.file)
           [] e.type = "task_start" -> e.task_id + 2
           [] e.type = "complete" -> 7
           [] OTHER -> 0

IsRanked(e) == EventRank(e) # 0

\* no ranked event is followed by one of a lower rank
EventsInStageOrder ==
    LET ranked == SelectSeq(trace, IsRanked)
    IN \A i \in 1..(Len(ranked) - 1) : EventRank(ranked[i]) <= EventRank(ranked[i + 1])

StageEnteredFromPredecessor ==
    pc' # pc /\ pc' \in {PipelineOrder[i] : i \in 2..Len(PipelineOrder)}
        => IsSuccessor(pc, pc')

\* C4: a pipeline state is entered only from its predecessor in the order
\* intent, description, todo_list, project_persisted, requirements, markup,
\* style, behavior, finalized, and the events of a run appear in that order:
\* description, todo events, project_created, index.html, style.css,
\* script.js, complete.
C4_StagesInOrder == [][StageEnteredFromPredecessor]_vars /\ []EventsInStageOrder

C4_Witness ==
    /\ pc = "finalized"
    /\ \E i \in 1..Len(trace) :
         IsEventOf(trace[i], "code_complete") /\ trace[i].file = "script.js"
    /\ \E i \in 1..Len(trace) : IsEventOf(trace[i], "todo_item")

ArtifactNames(stage) ==
    CASE stage = "markup" -> {"HTML"}
      [] stage = "style" -> {"CSS"}
      [] stage = "behavior" -> {"JS", "JavaScript"}

FilesFrom(stage) ==
    CASE stage = "markup" -> {"index.html", "style.css", "script.js"}
      [] stage = "style" -> {"style.css", "script.js"}
      [] stage = "behavior" -> {"script.js"}

IsFailedCodeCall(e) ==
    e.kind = "call" /\ ~e.ok /\ e.stage \in {"markup", "style", "behavior"}

\* C5: after a failed Gateway call of a code-generation stage the only thing
\* that follows is one error event whose message names the artifact; no
\* code_start, code_line, code_complete, tokens_update or task_complete event
\* follows, and no artifact of that or a later stage is in storage.
C5_CodeStageFailure ==
    \A i \in 1..Len(trace) :
        IsFailedCodeCall(trace[i]) =>
            /\ Len(trace) = i + 1
            /\ IsEventOf(trace[i + 1], "error")
            /\ \E w \in 1..Len(trace[i + 1].message) :
                 trace[i + 1].message[w] \in ArtifactNames(trace[i].stage)
            /\ \A j \in (i + 1)..Len(trace) :
                 /\ ~IsWrite(trace[j])
                 /\ ~(trace[j].kind = "event" /\ trace[j].type \in
                        {"code_start", "code_line", "code_complete",
                         "tokens_update", "task_complete"})
            /\ \A id \in DOMAIN storage : DOMAIN storage[id] \cap FilesFrom(trace[i].stage) = {}
            /\ pc = "failed"

C5_Witness ==
    /\ pc = "failed"
    /\ \E i \in 1..Len(trace) : IsFailedCodeCall(trace[i]) /\ trace[i].stage = "style"
    /\ \E id \in DOMAIN storage : "index.html" \in DOMAIN storage[id]

\* C6: when the reply of the intent call cannot be parsed as the intent
\* object, detect_user_intent returns intent conversation and the pipeline
\* takes the early exit: no project is created.
C6_UnparsedIntentIsConversation ==
    \A i \in 1..Len(trace) :
        (IsCall(trace[i]) /\ trace[i].stage = "intent" /\ trace[i].ok /\ ~trace[i].parsed)
            => /\ intent_result.intent = "conversation"
               /\ pc = "early_exit"
               /\ projects = NoFun

\* C7: a failed Gateway call of the description stage is fatal: the run ends
\* with an error event, no description event is emitted, no project record is
\* created and no later stage calls the Gateway.
C7_DescriptionFailureIsFatal ==
    \A i \in 1..Len(trace) :
        (IsFailedCall(trace[i]) /\ trace[i].stage = "description")
            => /\ pc = "failed"
               /\ LastEvent(trace).type = "error"
               /\ \A j \in 1..Len(trace) : ~IsEventOf(trace[j], "description")
               /\ projects = NoFun
               /\ \A j \in (i + 1)..Len(trace) : ~IsCall(trace[j])

\* C8: no stage calls the Gateway twice, and after a failed or timed-out
\* Gateway call of any stage no further Gateway call is issued and the run
\* ends with an error event.
C8_FailedCallEndsPipeline ==
    /\ \A i \in 1..Len(trace) : \A j \in 1..Len(trace) :
         (IsCall(trace[i]) /\ IsCall(trace[j]) /\ trace[i].stage = trace[j].stage) => i = j
    /\ \A i \in 1..Len(trace) :
         IsFailedCall(trace[i]) =>
            /\ \A j \in (i + 1)..Len(trace) : ~IsCall(trace[j])
            /\ RunOver => (pc = "failed" /\ LastEvent(trace).type = "error")

\* C9: an empty or whitespace-only prompt is rejected by the entry point
\* before the pipeline starts: no provider is constructed, no Gateway call is
\* made and no event is emitted.
C9_BlankPromptRejected ==
    (prompt = <<>> \/ \A i \in 1..Len(prompt) : prompt[i] \in Whitespace) =>
        /\ trace = <<>>
        /\ pc \in {"request", "rejected"}
        /\ response # "stream"

\* C10: once a run has ended, in complete or in error, every project record
\* has its three artifacts in storage.
C10_NoRecordWithoutArtifacts ==
    RunOver =>
        \A id \in DOMAIN projects :
            id \in DOMAIN storage /\ ALLOWED_FILES \subseteq DOMAIN storage[id]

IsFailedMkdir(e) == e.kind = "mkdir" /\ ~e.ok

\* C11: the storage namespace of a project is created before any of its
\* artifacts is written, and when the namespace creation fails the run ends
\* with an error event, no artifact is written, and neither a project record
\* nor a project_created event refers to the namespace that was not created.
C11_NamespaceBeforeArtifacts ==
    /\ \A j \in 1..Len(trace) :
         IsWrite(trace[j]) =>
            \E i \in 1..(j - 1) :
                /\ trace[i].kind = "mkdir" /\ trace[i].ok
                /\ trace[i].project_id = trace[j].project_id
    /\ \A i \in 1..Len(trace) :
         IsFailedMkdir(trace[i]) =>
            /\ pc = "failed"
            /\ LastEvent(trace).type = "error"
            /\ \A j \in 1..Len(trace) : ~IsWrite(trace[j])
            /\ trace[i].project_id \notin DOMAIN projects
            /\ \A j \in 1..Len(trace) : ~IsEventOf(trace[j], "project_created")

IsDisconnect(e) == e.kind = "disconnect"

\* C12: once the consumer has stopped iterating the event generator, at
\* whatever suspension point of the run, the pipeline makes no further
\* Gateway call and writes no further artifact.
C12_NothingRunsAfterDisconnect ==
    \A i \in 1..Len(trace) :
        IsDisconnect(trace[i]) =>
            \A j \in (i + 1)..Len(trace) : ~IsCall(trace[j]) /\ ~IsWrite(trace[j])

IsComplete(e) == e.kind = "event" /\ e.type = "complete"

\* C13: in every complete event remaining_tokens = token_limit - tokens_used,
\* tokens_used being the running total of the run; the limit is the one
\* get_remaining_tokens reports or, when the lookup fails, the default.
C13_RemainingTokens ==
    \A i \in 1..Len(trace) :
        IsComplete(trace[i]) =>
            /\ trace[i].tokens_used = total_tokens_used
            /\ trace[i].token_limit =
                 (IF token_lookup = "raises" THEN DEFAULT_TOKEN_LIMIT ELSE GROQ_TOKEN_LIMIT)
            /\ trace[i].remaining_tokens = trace[i].token_limit - trace[i].tokens_used

C13_Witness ==
    /\ pc = "finalized"
    /\ token_lookup = "raises"
    /\ IsComplete(LastEvent(trace))
    /\ LastEvent(trace).tokens_used > 0
    /\ LastEvent(trace).remaining_tokens < DEFAULT_TOKEN_LIMIT

IsTokensUpdate(e) == e.kind = "event" /\ e.type = "tokens_update"

IsCodeCallDone(e) ==
    e.kind = "call" /\ e.ok /\ e.stage \in {"markup", "style", "behavior"}

CountOf(tr, P(_)) == Cardinality({i \in 1..Len(tr) : P(tr[i])})

\* C14: the token usage is a running total over the stage calls of the run,
\* the intent call of the early-exit path included; one tokens_update event
\* follows each of the three code-generation stages, and the terminal event
\* of every run carries the total, in both pipelines.
C14_TokenUsageSurfaced ==
    /\ pc = "early_exit" =>
         total_tokens_used = (IF intent_result.total_tokens = NoInt
                              THEN estimate_tokens(prompt)
                              ELSE intent_result.total_tokens)
    /\ pc \in {"style", "behavior", "finalize", "finalized"} =>
         CountOf(trace, IsTokensUpdate) = CountOf(trace, IsCodeCallDone)
    /\ RunOver =>
         /\ IsTerminal(LastEvent(trace))
         /\ "tokens_used" \in DOMAIN LastEvent(trace)
         /\ LastEvent(trace).tokens_used = total_tokens_used

IsFailedConstruct(e) == e.kind = "construct" /\ ~e.ok

IsThinking(e) == e.kind = "event" /\ e.type = "thinking"

\* C15: when the construction of the selected provider fails, the stream is
\* exactly one error event whose message names the provider; there is no
\* thinking event, no Gateway call, no project record and no storage
\* namespace, and the run has ended.
C15_ProviderFailureIsFatal ==
    \A i \in 1..Len(trace) :
        IsFailedConstruct(trace[i]) =>
            /\ pc = "failed"
            /\ Len(Events(trace)) = 1
            /\ IsEventOf(LastEvent(trace), "error")
            /\ StartsWith(LastEvent(trace).message, <<"Failed to initialize ">>)
            /\ Contains(LastEvent(trace).message, trace[i].provider_name)
            /\ \A j \in 1..Len(trace) : ~IsThinking(trace[j]) /\ ~IsCall(trace[j])
            /\ projects = NoFun
            /\ storage = NoFun

C15_Witness ==
    /\ pc = "failed"
    /\ \E i \in 1..Len(trace) :
         /\ IsFailedConstruct(trace[i])
         /\ trace[i].provider_name = ID_langchain_groq
         /\ trace[i].error = "ValueError"
    /\ Len(trace) = 2

\* the identifiers get_provider constructs a provider for
AcceptedIdentifiers ==
    { ID_langchain, ID_langchain_ollama, ID_langchain_groq, ID_langchain_openai,
      ID_groq, ID_openai, ID_ollama }

\* the provider variant each identifier stands for
VariantOf(id) ==
    CASE id \in {ID_langchain, ID_langchain_ollama} ->
            [class |-> "LangChainProvider", model_type |-> "ollama"]
      [] id = ID_langchain_groq -> [class |-> "LangChainProvider", model_type |-> "groq"]
      [] id = ID_langchain_openai ->
            [class |-> "LangChainProvider", model_type |-> "openai"]
      [] id = ID_groq -> [class |-> "GroqProvider", model_type |-> None]
      [] id = ID_openai -> [class |-> "OpenAIProvider", model_type |-> None]
      [] id = ID_ollama -> [class |-> "OllamaProvider", model_type |-> None]

Range(seq) == {seq[i] : i \in 1..Len(seq)}

IsUnknownProviderError(r) ==
    /\ r.status = "raised"
    /\ r.error = "ValueError"
    /\ StartsWith(r.message, <<"Unknown", "provider:">>)

\* C16: get_provider maps every supported identifier, whatever its letter
\* case, to its provider variant, and for every other identifier raises an
\* error whose message lists the supported identifiers and returns no
\* provider.
C16_GetProviderMapping ==
    call.op = "get_provider" =>
        LET id == Lower(call.name)
        IN /\ id \in AcceptedIdentifiers =>
                /\ ~IsUnknownProviderError(returned)
                /\ returned.status = "returned" =>
                     /\ returned.provider.class = VariantOf(id).class
                     /\ returned.provider.model_type = VariantOf(id).model_type
           /\ id \notin AcceptedIdentifiers =>
                /\ IsUnknownProviderError(returned)
                /\ returned.provider = NoProvider
                /\ Range(returned.listed) = AcceptedIdentifiers

OllamaFailures == {"Timeout", "ConnectionError", "status_500", "empty"}

\* the word of the message that tells the cause
CauseWord(http) ==
    CASE http = "Timeout" -> "timed"
      [] http = "ConnectionError" -> "connect"
      [] http = "status_500" -> "(status"
      [] http = "empty" -> "empty"

\* C17: a failed OllamaProvider.chat_completion raises an error whose message
\* names the Ollama backend and the cause (timeout, refused connection,
\* non-200 status, empty response), and no other of these causes.
C17_OllamaErrorNamesCause ==
    (/\ call.op = "chat_completion"
     /\ returned.provider.class = "OllamaProvider"
     /\ call.http \in OllamaFailures) =>
        /\ returned.status = "raised"
        /\ "Ollama" \in Range(returned.message)
        /\ CauseWord(call.http) \in Range(returned.message)
        /\ \A other \in OllamaFailures \ {call.http} :
             CauseWord(other) \notin Range(returned.message)

\* C18: constructing the local-inference provider succeeds whatever the
\* reachability probe does, with a warning when the probe did not answer 200;
\* the first chat_completion is where an unreachable server raises.
C18_ProbeNeverFailsConstruction ==
    /\ (/\ call.op = "get_provider"
        /\ Lower(call.name) = ID_ollama
        /\ env.missing # "requests") =>
            /\ returned.status = "returned"
            /\ returned.provider.class = "OllamaProvider"
            /\ (env.probe # "200") = (returned.provider.warning # None)
    /\ (/\ call.op = "get_provider"
        /\ Lower(call.name) \in {ID_langchain, ID_langchain_ollama}
        /\ env.missing # "langchain_ollama") =>
            /\ returned.status = "returned"
            /\ returned.provider.model_type = "ollama"
    /\ (/\ call.op = "chat_completion"
        /\ returned.provider.class = "OllamaProvider"
        /\ call.http \in {"Timeout", "ConnectionError"}) =>
            returned.status = "raised"

C18_Witness ==
    /\ call.op = "chat_completion"
    /\ env.probe = "ConnectionError"
    /\ returned.provider.class = "OllamaProvider"
    /\ returned.provider.warning # None
    /\ call.http = "ConnectionError"
    /\ returned.status = "raised"

NeedsCredentials(id, e) ==
    \/ id = ID_groq /\ (~e.GROQ_API_KEY \/ e.missing = "groq")
    \/ id = ID_openai /\ (~e.OPENAI_API_KEY \/ e.missing = "openai")
    \/ id = ID_langchain_groq /\ (~e.GROQ_API_KEY \/ e.missing = "langchain_groq")
    \/ id = ID_langchain_openai /\ (~e.OPENAI_API_KEY \/ e.missing = "langchain_openai")

\* C19: constructing GroqProvider, OpenAIProvider or LangChainProvider for
\* groq or openai fails with an initialization error, and returns no
\* provider, when its API key is absent or its client library is not
\* installed.
C19_MissingCredentialsFailConstruction ==
    (call.op = "get_provider" /\ NeedsCredentials(Lower(call.name), env)) =>
        /\ returned.status = "raised"
        /\ returned.error \in {"ValueError", "ImportError"}
        /\ returned.provider = NoProvider

C19_Witness ==
    /\ call.op = "get_provider"
    /\ Lower(call.name) = ID_groq
    /\ ~env.GROQ_API_KEY
    /\ env.missing = None
    /\ returned.status = "raised"
    /\ "GROQ_API_KEY" \in Range(returned.message)

\* C20: for every project id, allowed filename and content, carriage returns
\* and CR-LF line endings included, get_file right after save_file returns
\* exactly the content that was written.
C20_SaveThenGetRoundTrip ==
    (/\ call.op = "get_file"
     /\ call.saved.filename \in ALLOWED_FILES
     /\ call.project_id = call.saved.project_id
     /\ call.filename = call.saved.filename) =>
        /\ returned.status = "returned"
        /\ returned.content = call.saved.content

\* C23: when the pipeline has failed, every artifact written before the
\* failure is still in the storage with the content that was written: the
\* error path deletes no file and rewrites none.
C23_FailureKeepsWrittenArtifacts ==
    pc = "failed" =>
        \A i \in 1..Len(trace) :
            IsWrite(trace[i]) =>
                /\ trace[i].project_id \in DOMAIN storage
                /\ trace[i].file \in DOMAIN storage[trace[i].project_id]
                /\ storage[trace[i].project_id][trace[i].file]
                       = WriteText(trace[i].content, PosixLinesep)

C23_Witness ==
    /\ pc = "failed"
    /\ \E i \in 1..Len(trace) : IsWrite(trace[i]) /\ trace[i].file = "style.css"
    /\ IsEventOf(trace[Len(trace)], "error")

\* C24: within one request the ids of the todo items, as emitted in the
\* todo_item events and in the complete event, are pairwise distinct, and the
\* complete event lists the items in the order of their todo_item events.
C24_TodoIdsDistinctInCreationOrder ==
    LET IsTodoItem(e) == IsEventOf(e, "todo_item")
        items == SelectSeq(trace, IsTodoItem)
        done == SelectSeq(trace, IsComplete)
    IN /\ \A i, j \in 1..Len(items) :
            i # j => items[i].todo.id # items[j].todo.id
       /\ \A c \in 1..Len(done) :
            /\ Len(done[c].todo_list) = Len(items)
            /\ \A i \in 1..Len(items) : done[c].todo_list[i].id = items[i].todo.id

\* C25: when the reply of the todo-list stage is not a list of {id, task}
\* items, generate_todo_list returns the fixed five-item list with ids 1 to 5:
\* setup, markup, style, behavior, finalization.
C25_UnparsedTodoListIsDefault ==
    LET IsItem(x) == x.isDict /\ x.id # NoInt /\ x.hasTask
        IsItemList(o) ==
            /\ ~Failed(o) /\ o.parsed /\ o.shape # "other" /\ o.iterable
            /\ \A i \in 1..Len(o.data) : IsItem(o.data[i])
        Subjects == << <<"S", "e", "t", " ", "u", "p">>, <<"H", "T", "M", "L">>,
                       <<"C", "S", "S">>,
                       <<"J", "a", "v", "a", "S", "c", "r", "i", "p", "t">>,
                       <<"F", "i", "n", "a", "l", "i", "z", "e">> >>
        IsDefault(v) ==
            /\ v.iterable
            /\ Len(v.data) = 5
            /\ \A i \in 1..5 :
                  /\ v.data[i].isDict
                  /\ v.data[i].id = i
                  /\ v.data[i].hasTask
                  /\ Contains(v.data[i].task, Subjects[i])
    IN (call.op = "generate_todo_list" /\ ~IsItemList(call.outcome)) =>
           (returned.status = "returned" /\ IsDefault(returned.value))

\* C27: a code stage whose reply wraps the code in a fence, bare or tagged with
\* the language of the stage (html, css, js or javascript), returns the code
\* between the fences: no fence marker, no language tag.
C27_FencesStripped ==
    LET StageTags == << { <<"h", "t", "m", "l">> }, { <<"c", "s", "s">> },
                        { <<"j", "s">>,
                          <<"j", "a", "v", "a", "s", "c", "r", "i", "p", "t">> } >>
    IN (/\ call.op = "generate_code"
        /\ call.fenced
        /\ call.tag \in {<<>>} \cup StageTags[call.k]) =>
           /\ ~Contains(returned.content, Fence)
           /\ Strip(returned.content) = call.body

\* C26: when the reply of the requirement-extraction stage cannot be parsed,
\* the profile is the default one (webpage, modern, no colors, no required
\* behaviors), no error is raised and the markup stage comes next.
C26_UnparsedRequirementsAreDefault ==
    LET IsUnparsed(e) ==
            e.kind = "call" /\ e.stage = "requirements" /\ e.ok /\ ~e.parsed
    IN \A i \in 1..Len(trace) :
          IsUnparsed(trace[i]) =>
             /\ project_requirements.project_type = "webpage"
             /\ project_requirements.theme = "modern"
             /\ project_requirements.colors = <<>>
             /\ project_requirements.js_functions = <<>>
             /\ i = Len(trace) => pc = "markup"
             /\ i < Len(trace) => IsEventOf(trace[i + 1], "task_start")

C26_Witness ==
    /\ pc = "style"
    /\ \E i \in 1..Len(trace) :
          /\ trace[i].kind = "call" /\ trace[i].stage = "requirements"
          /\ trace[i].ok /\ ~trace[i].parsed
    /\ project_requirements.theme = "modern"

\* C28: in every pipeline variant, a markup artifact that is persisted with a
\* head element carries a viewport meta tag, and a style artifact that is
\* persisted carries a responsive media query.
C28_PostProcessingBeforePersist ==
    LET MediaQuery == <<"@", "m", "e", "d", "i", "a">>
        HeadOpen == <<"<", "h", "e", "a", "d">>
        Viewport == <<"v", "i", "e", "w", "p", "o", "r", "t">>
    IN \A i \in 1..Len(trace) :
          IsWrite(trace[i]) =>
             /\ trace[i].file = "style.css" => Contains(trace[i].content, MediaQuery)
             /\ (trace[i].file = "index.html" /\ Contains(Lower(trace[i].content), HeadOpen))
                    => Contains(Lower(trace[i].content), Viewport)

\* ------------------------------------------------------- preview composition
\* F applied to the value of v: v is evaluated once, however often F uses it
With(v, F(_)) == CHOOSE r \in {F(x) : x \in {v}} : TRUE

\* re.sub(pattern, '', s, flags=re.IGNORECASE | re.DOTALL) for the patterns of
\* preview_project, all of the form
\*     <name[^>]*  key=["']...suffix["']  [^>]*>  (.*?)close
\* pat.key = <<>> asks for no attribute; pat.exact asks the quoted value to be
\* the suffix and nothing else; pat.close = <<>> ends the match with the tag;
\* pat.lazy lets anything stand between the tag and the first pat.close.
\* (A quoted value that holds a ">" is not followed beyond it.)
RECURSIVE re_sub(_, _)
re_sub(s, pat) ==
    With(s, LAMBDA text :
    With(Lower(text), LAMBDA low :
    With(Find(low, pat.name, 1), LAMBDA i :
    With(IF i = 0 THEN 0 ELSE Find(text, <<">">>, i + Len(pat.name)), LAMBDA j :
    With(IF j = 0 THEN <<>> ELSE SubSeq(low, i + Len(pat.name), j - 1), LAMBDA tag :
        LET Quotes == {"\"", "'"}
            from(p) == p + Len(pat.key) + 1
            HasAttribute ==
                \E p \in 1..Len(tag) :
                   /\ from(p) - 1 <= Len(tag)
                   /\ SubSeq(tag, p, from(p) - 2) = pat.key
                   /\ tag[from(p) - 1] \in Quotes
                   /\ \E c \in from(p)..Len(tag) :
                        /\ tag[c] \in Quotes
                        /\ \A r \in from(p)..(c - 1) : tag[r] \notin Quotes
                        /\ c - Len(pat.suffix) >= from(p)
                        /\ SubSeq(tag, c - Len(pat.suffix), c - 1) = pat.suffix
                        /\ pat.exact => c - Len(pat.suffix) = from(p)
            last == IF pat.close = <<>> THEN j
                    ELSE IF pat.lazy
                    THEN LET e == Find(low, pat.close, j + 1)
                         IN IF e = 0 THEN 0 ELSE e + Len(pat.close) - 1
                    ELSE IF j + Len(pat.close) <= Len(low)
                            /\ SubSeq(low, j + 1, j + Len(pat.close)) = pat.close
                    THEN j + Len(pat.close)
                    ELSE 0
        IN IF i = 0 \/ j = 0 THEN text
           ELSE IF (pat.key = <<>> \/ HasAttribute) /\ last # 0
           THEN SubSeq(text, 1, i - 1) \o re_sub(SubSeq(text, last + 1, Len(text)), pat)
           ELSE SubSeq(text, 1, i) \o re_sub(SubSeq(text, i + 1, Len(text)), pat))))))

\* the tags and closing tags the patterns name
Tags ==
    [link |-> <<"<", "l", "i", "n", "k">>,
     script |-> <<"<", "s", "c", "r", "i", "p", "t">>,
     script_close |-> <<"<", "/", "s", "c", "r", "i", "p", "t", ">">>,
     style |-> <<"<", "s", "t", "y", "l", "e">>,
     style_close |-> <<"<", "/", "s", "t", "y", "l", "e", ">">>,
     head |-> <<"<", "h", "e", "a", "d", ">">>,
     head_close |-> <<"<", "/", "h", "e", "a", "d", ">">>,
     body_close |-> <<"<", "/", "b", "o", "d", "y", ">">>,
     doctype |-> <<"<", "!", "D", "O", "C", "T", "Y", "P", "E", " ", "h", "t", "m", "l", ">">>,
     html |-> <<"<", "h", "t", "m", "l">>]

\* "Remove external CSS and JS links": the four substitutions, in order
RemoveExternal(html) ==
    LET Pattern(name, key, suffix, exact, close, lazy) ==
            [name |-> name, key |-> key, suffix |-> suffix, exact |-> exact,
             close |-> close, lazy |-> lazy]
        rel == Pattern(Tags.link, <<"r", "e", "l", "=">>, <<"s", "t", "y", "l", "e", "s", "h", "e", "e", "t">>, TRUE, <<>>, FALSE)
        href == Pattern(Tags.link, <<"h", "r", "e", "f", "=">>, <<".", "c", "s", "s">>, FALSE, <<>>, FALSE)
        src_js == Pattern(Tags.script, <<"s", "r", "c", "=">>, <<".", "j", "s">>, FALSE, Tags.script_close, FALSE)
        src == Pattern(Tags.script, <<"s", "r", "c", "=">>, <<>>, FALSE, Tags.script_close, TRUE)
    IN re_sub(re_sub(re_sub(re_sub(html, rel), href), src_js), src)

\* re.sub(r'<style[^>]*>.*?</style>', '', ...) and the same for script
RemoveInline(html, name, close) ==
    re_sub(html, [name |-> name, key |-> <<>>, suffix |-> <<>>, exact |-> FALSE,
                  close |-> close, lazy |-> TRUE])

\* f"<style>\n{css_content}\n</style>" and f"<script>\n{js_content}\n</script>"
Block(name, close, content) == name \o <<">", "\n">> \o content \o <<"\n">> \o close

\* a skeleton that puts the style block into the body, in front of the fragment
PreviewDocumentStyleInBody(title, css_content, html_content, js_content) ==
    <<"<", "!", "D", "O", "C", "T", "Y", "P", "E", " ", "h", "t", "m", "l", ">", "\n", "<",
      "h", "t", "m", "l", " ", "l", "a", "n", "g", "=", "\"", "e", "n", "\"", ">", "\n",
      "<", "h", "e", "a", "d", ">", "\n", " ", " ", " ", " ", "<", "t", "i", "t", "l", "e",
      ">">>
    \o title \o
    <<"<", "/", "t", "i", "t", "l", "e", ">", "\n", "<", "/", "h", "e", "a", "d", ">",
      "\n", "<", "b", "o", "d", "y", ">", "\n", " ", " ", " ", " ", "<", "s", "t", "y",
      "l", "e", ">", "\n", " ", " ", " ", " ", " ", " ", " ", " ">>
    \o css_content \o
    <<"\n", " ", " ", " ", " ", "<", "/", "s", "t", "y", "l", "e", ">", "\n", " ", " ",
      " ", " ">>
    \o html_content \o
    <<"\n", " ", " ", " ", " ", "<", "s", "c", "r", "i", "p", "t", ">", "\n", " ", " ",
      " ", " ", " ", " ", " ", " ">>
    \o js_content \o
    <<"\n", " ", " ", " ", " ", "<", "/", "s", "c", "r", "i", "p", "t", ">", "\n", "<",
      "/", "b", "o", "d", "y", ">", "\n", "<", "/", "h", "t", "m", "l", ">">>

\* the document built around a markup that is "just a fragment"
PreviewDocument(title, css_content, html_content, js_content) ==
    <<"<", "!", "D", "O", "C", "T", "Y", "P", "E", " ", "h", "t", "m", "l", ">", "\n", "<",
      "h", "t", "m", "l", " ", "l", "a", "n", "g", "=", "\"", "e", "n", "\"", ">", "\n",
      "<", "h", "e", "a", "d", ">", "\n", " ", " ", " ", " ", "<", "m", "e", "t", "a", " ",
      "c", "h", "a", "r", "s", "e", "t", "=", "\"", "U", "T", "F", "-", "8", "\"", ">",
      "\n", " ", " ", " ", " ", "<", "m", "e", "t", "a", " ", "n", "a", "m", "e", "=",
      "\"", "v", "i", "e", "w", "p", "o", "r", "t", "\"", " ", "c", "o", "n", "t", "e",
      "n", "t", "=", "\"", "w", "i", "d", "t", "h", "=", "d", "e", "v", "i", "c", "e", "-",
      "w", "i", "d", "t", "h", ",", " ", "i", "n", "i", "t", "i", "a", "l", "-", "s", "c",
      "a", "l", "e", "=", "1", ".", "0", "\"", ">", "\n", " ", " ", " ", " ", "<", "t",
      "i", "t", "l", "e", ">">>
    \o title \o
    <<"<", "/", "t", "i", "t", "l", "e", ">", "\n", " ", " ", " ", " ", "<", "s", "t", "y",
      "l", "e", ">", "\n", " ", " ", " ", " ", " ", " ", " ", " ">>
    \o css_content \o
    <<"\n", " ", " ", " ", " ", "<", "/", "s", "t", "y", "l", "e", ">", "\n", "<", "/",
      "h", "e", "a", "d", ">", "\n", "<", "b", "o", "d", "y", ">", "\n", " ", " ", " ", " ">>
    \o html_content \o
    <<"\n", " ", " ", " ", " ", "<", "s", "c", "r", "i", "p", "t", ">", "\n", " ", " ",
      " ", " ", " ", " ", " ", " ">>
    \o js_content \o
    <<"\n", " ", " ", " ", " ", "<", "/", "s", "c", "r", "i", "p", "t", ">", "\n", "<",
      "/", "b", "o", "d", "y", ">", "\n", "<", "/", "h", "t", "m", "l", ">">>

\* `"<!DOCTYPE html>" not in html_content and "<html" not in html_content`
IsFragment(html) == ~Contains(html, Tags.doctype) /\ ~Contains(html, Tags.html)

\* get_all_files: a file that does not exist reads as the empty string
get_all_files(st, id) ==
    [f \in ALLOWED_FILES |->
        LET got == get_file(st, id, f)
        IN IF got.status = "returned" THEN got.content ELSE <<>>]

HttpResponse(status, body) == [status |-> status, body |-> body]

\* previews served in a row
MaxCompositions == 2

\* preview_project of api/views.py once the Project record was found
ComposeDjango(name, files) ==
    With(RemoveExternal(files["index.html"]), LAMBDA html_content :
    With(RemoveInline(html_content, Tags.style, Tags.style_close), LAMBDA no_style :
    With(Block(Tags.style, Tags.style_close, files["style.css"]), LAMBDA style :
    With(IF Contains(no_style, Tags.head_close)
         THEN Replace(no_style, Tags.head_close, style \o <<"\n">> \o Tags.head_close)
         ELSE IF Contains(no_style, Tags.head)
         THEN Replace(no_style, Tags.head, Tags.head \o <<"\n">> \o style)
         ELSE style \o <<"\n">> \o no_style, LAMBDA styled :
    With(RemoveInline(styled, Tags.script, Tags.script_close), LAMBDA no_script :
    With(Block(Tags.script, Tags.script_close, files["script.js"]), LAMBDA script :
        IF IsFragment(html_content)
        THEN HttpResponse(200, PreviewDocument(name, files["style.css"], html_content,
                                               files["script.js"]))
        ELSE IF Contains(no_script, Tags.body_close)
        THEN HttpResponse(200, Replace(no_script, Tags.body_close,
                                       script \o <<"\n">> \o Tags.body_close))
        ELSE HttpResponse(200, no_script \o <<"\n">> \o script)))))))

\* preview_project of api/views.py when no Project record was found in five
\* attempts: "try to serve files if they exist"
ComposeDjangoWithoutRecord(files) ==
    With(RemoveExternal(files["index.html"]), LAMBDA html_content :
    With(RemoveInline(html_content, Tags.style, Tags.style_close), LAMBDA no_style :
    With(Block(Tags.style, Tags.style_close, files["style.css"]), LAMBDA style :
    With(IF Contains(no_style, Tags.head_close)
         THEN Replace(no_style, Tags.head_close, style \o <<"\n">> \o Tags.head_close)
         ELSE no_style, LAMBDA styled :
    With(RemoveInline(styled, Tags.script, Tags.script_close), LAMBDA no_script :
    With(Block(Tags.script, Tags.script_close, files["script.js"]), LAMBDA script :
        IF \A f \in ALLOWED_FILES : files[f] = <<>>
        THEN HttpResponse(404, <<>>)
        ELSE IF IsFragment(html_content)
        THEN HttpResponse(200, PreviewDocument(<<"P", "r", "e", "v", "i", "e", "w">>,
                                               files["style.css"], html_content,
                                               files["script.js"]))
        ELSE IF Contains(no_script, Tags.body_close)
        THEN HttpResponse(200, Replace(no_script, Tags.body_close,
                                       script \o <<"\n">> \o Tags.body_close))
        ELSE HttpResponse(200, no_script)))))))

\* preview_project of app/routers/projects.py once the Project record was found
ComposeFastapi(name, files) ==
    With(files["index.html"], LAMBDA html_content :
    With(Block(Tags.style, Tags.style_close, files["style.css"]), LAMBDA style :
    With(IF ~Contains(html_content, Tags.style \o <<">">>)
            /\ Contains(html_content, Tags.head_close)
         THEN Replace(html_content, Tags.head_close, style \o <<"\n">> \o Tags.head_close)
         ELSE IF Contains(html_content, Tags.head)
         THEN Replace(html_content, Tags.head, Tags.head \o <<"\n">> \o style)
         ELSE style \o <<"\n">> \o html_content, LAMBDA styled :
    With(Block(Tags.script, Tags.script_close, files["script.js"]), LAMBDA script :
        IF IsFragment(html_content)
        THEN HttpResponse(200, PreviewDocument(name, files["style.css"], html_content,
                                               files["script.js"]))
        ELSE IF Contains(styled, Tags.body_close)
        THEN HttpResponse(200, Replace(styled, Tags.body_close,
                                       script \o <<"\n">> \o Tags.body_close))
        ELSE HttpResponse(200, styled \o <<"\n">> \o script)))))

\* GET .../preview at either entry point; `found` is what the lookups of the
\* Project record gave (five attempts in api/views.py, two in the router)
preview_project(entry, found, reg, st, id) ==
    With(get_all_files(st, id), LAMBDA files :
        IF found THEN
            IF entry = "django" THEN ComposeDjango(reg[id].name, files)
            ELSE ComposeFastapi(reg[id].name, files)
        ELSE IF entry = "django" THEN ComposeDjangoWithoutRecord(files)
        ELSE HttpResponse(404, <<>>))

\* the markups, styles and behaviors the handlers are given
Contents(filename) ==
    LET
        Empty ==
            <<>>
        Fragment ==
            <<"<", "p", ">", "h", "i", "<", "/", "p", ">">>
        FragmentWithExternals ==
            <<"<", "l", "i", "n", "k", " ", "r", "e", "l", "=", "\"", "s", "t", "y", "l",
              "e", "s", "h", "e", "e", "t", "\"", " ", "h", "r", "e", "f", "=", "\"", "s",
              "t", "y", "l", "e", ".", "c", "s", "s", "\"", ">", "<", "p", ">", "h", "i",
              "<", "/", "p", ">", "<", "s", "c", "r", "i", "p", "t", " ", "s", "r", "c",
              "=", "\"", "s", "c", "r", "i", "p", "t", ".", "j", "s", "\"", ">", "<", "/",
              "s", "c", "r", "i", "p", "t", ">">>
        Document ==
            <<"<", "!", "D", "O", "C", "T", "Y", "P", "E", " ", "h", "t", "m", "l", ">",
              "<", "h", "t", "m", "l", ">", "<", "h", "e", "a", "d", ">", "<", "/", "h",
              "e", "a", "d", ">", "<", "b", "o", "d", "y", ">", "<", "p", ">", "h", "i",
              "<", "/", "p", ">", "<", "/", "b", "o", "d", "y", ">", "<", "/", "h", "t",
              "m", "l", ">">>
        DocumentWithEverything ==
            <<"<", "!", "D", "O", "C", "T", "Y", "P", "E", " ", "h", "t", "m", "l", ">",
              "<", "h", "t", "m", "l", ">", "<", "h", "e", "a", "d", ">", "<", "l", "i",
              "n", "k", " ", "r", "e", "l", "=", "\"", "s", "t", "y", "l", "e", "s", "h",
              "e", "e", "t", "\"", " ", "h", "r", "e", "f", "=", "\"", "s", "t", "y", "l",
              "e", ".", "c", "s", "s", "\"", ">", "<", "s", "t", "y", "l", "e", ">", "b",
              "{", "}", "<", "/", "s", "t", "y", "l", "e", ">", "<", "/", "h", "e", "a",
              "d", ">", "<", "b", "o", "d", "y", ">", "<", "p", ">", "h", "i", "<", "/",
              "p", ">", "<", "s", "c", "r", "i", "p", "t", ">", "g", "(", ")", "<", "/",
              "s", "c", "r", "i", "p", "t", ">", "<", "s", "c", "r", "i", "p", "t", " ",
              "s", "r", "c", "=", "\"", "s", "c", "r", "i", "p", "t", ".", "j", "s", "\"",
              ">", "<", "/", "s", "c", "r", "i", "p", "t", ">", "<", "/", "b", "o", "d",
              "y", ">", "<", "/", "h", "t", "m", "l", ">">>
        DocumentInCapitals ==
            <<"<", "h", "t", "m", "l", ">", "<", "H", "E", "A", "D", ">", "<", "L", "I",
              "N", "K", " ", "R", "E", "L", "=", "'", "s", "t", "y", "l", "e", "s", "h",
              "e", "e", "t", "'", " ", "H", "R", "E", "F", "=", "'", "a", ".", "c", "s",
              "s", "'", ">", "<", "/", "H", "E", "A", "D", ">", "<", "b", "o", "d", "y",
              ">", "<", "S", "C", "R", "I", "P", "T", " ", "S", "R", "C", "=", "'", "a",
              ".", "j", "s", "'", ">", "\n", "<", "/", "S", "C", "R", "I", "P", "T", ">",
              "<", "/", "b", "o", "d", "y", ">", "<", "/", "h", "t", "m", "l", ">">>
        DocumentWithOpenHead ==
            <<"<", "h", "t", "m", "l", ">", "<", "h", "e", "a", "d", ">", "<", "p", ">",
              "h", "i", "<", "/", "p", ">">>
        DocumentWithoutHead ==
            <<"<", "h", "t", "m", "l", ">", "<", "b", "o", "d", "y", ">", "<", "p", ">",
              "h", "i", "<", "/", "p", ">", "<", "/", "b", "o", "d", "y", ">", "<", "/",
              "h", "t", "m", "l", ">">>
        DocumentHeadInScript ==
            <<"<", "h", "t", "m", "l", ">", "<", "b", "o", "d", "y", ">", "<", "s", "c",
              "r", "i", "p", "t", ">", "x", "=", "\"", "<", "/", "h", "e", "a", "d", ">",
              "\"", "<", "/", "s", "c", "r", "i", "p", "t", ">", "<", "/", "b", "o", "d",
              "y", ">", "<", "/", "h", "t", "m", "l", ">">>
        Markups ==
            {Empty, Fragment, FragmentWithExternals, Document, DocumentWithEverything,
             DocumentInCapitals, DocumentWithOpenHead, DocumentWithoutHead, DocumentHeadInScript}
        Styles == {<<>>, <<"p", "{", "}">>}
        Behaviors == {<<>>, <<"f", "(", ")">>}
    IN CASE filename = "index.html" -> Markups
         [] filename = "style.css" -> Styles
         [] filename = "script.js" -> Behaviors
         [] OTHER -> {<<"x">>}


\* POST /projects: the record, the directory and three empty files
CallCreateProject ==
    /\ \E id \in {"p1"} :
         /\ id \notin DOMAIN projects
         /\ projects' = [x \in {id} |->
                            [name |-> <<"D", "e", "m", "o">>, description |-> <<>>]]
         /\ storage' = save_file(save_file(save_file(storage, id, "index.html", <<>>),
                                           id, "style.css", <<>>),
                                 id, "script.js", <<>>)
         /\ call' = [op |-> "create_project", project_id |-> id]
         /\ returned' = HttpResponse(201, <<>>)
    /\ UNCHANGED <<variant, prompt, transport, pc, response, trace, token_lookup,
                   total_tokens_used, intent_result, project_id, description, todo_list,
                   project_requirements, html_code, css_code, js_code, env>>

\* PUT .../files/{filename} at either entry point
CallUpdateFile ==
    /\ \E entry \in Variants, id \in {"p1"}, filename \in Filenames :
       \E content \in Contents(filename) :
         \* FileUpdateSerializer: CharField() trims the content and rejects a
         \* blank one; FileUpdate of app/schemas.py takes any string
         LET valid == entry = "django" => Strip(content) # <<>>
             saved == IF entry = "django" THEN Strip(content) ELSE content
         IN
         /\ call' = [op |-> "update_file", entry |-> entry, project_id |-> id,
                     filename |-> filename, content |-> content]
         /\ IF id \notin DOMAIN projects
            THEN /\ returned' = HttpResponse(404, <<>>)
                 /\ storage' = storage
            ELSE IF filename \notin ALLOWED_FILES \/ ~valid
            THEN /\ returned' = HttpResponse(400, <<>>)
                 /\ storage' = storage
            ELSE /\ returned' = HttpResponse(200, saved)
                 /\ storage' = save_file(storage, id, filename, saved)
    /\ UNCHANGED <<run_but_storage, env>>

\* a preview whose answer grows with the number of previews served before it
CallPreviewCounted ==
    /\ \E entry \in Variants, id \in {"p1"} :
       \E found \in {id \in DOMAIN projects, FALSE} :
         LET n == IF call.op = "preview" THEN call.n + 1 ELSE 1
             answer == preview_project(entry, found, projects, storage, id)
         IN
         /\ n <= MaxCompositions
         /\ call' = [op |-> "preview", entry |-> entry, project_id |-> id,
                     found |-> found, n |-> n]
         /\ returned' = [answer EXCEPT !.body = @ \o [i \in 1..(n - 1) |-> "\n"]]
    /\ UNCHANGED <<run, env>>

\* GET .../preview at either entry point, at most MaxCompositions in a row
CallPreview ==
    /\ \E entry \in Variants, id \in {"p1"} :
       \* the record is looked up; a record that exists may not be visible yet
       \E found \in {id \in DOMAIN projects, FALSE} :
         LET n == IF call.op = "preview" THEN call.n + 1 ELSE 1
         IN
         /\ n <= MaxCompositions
         /\ call' = [op |-> "preview", entry |-> entry, project_id |-> id,
                     found |-> found, n |-> n]
         /\ returned' = preview_project(entry, found, projects, storage, id)
    /\ UNCHANGED <<run, env>>

NextPreview == CallCreateProject \/ CallUpdateFile \/ CallPreview

SpecPreview == InitGenerators /\ [][NextPreview]_vars

\* the places of a text where a tag of the given name starts whose text, up to
\* its ">", mentions the given attribute text (letter case ignored)
TagsMentioning(text, name, mention) ==
    With(Lower(text), LAMBDA low :
        {i \in 1..(Len(low) - Len(name) + 1) :
            /\ SubSeq(low, i, i + Len(name) - 1) = name
            /\ \E j \in {Find(low, <<">">>, i)} :
                  j # 0 /\ Contains(SubSeq(low, i, j), mention)})

\* C30: a composed preview holds no stylesheet <link> tag and no <script src=...>
\* tag of the stored markup, whichever entry point composed it.
C30_NoExternalReferences ==
    (call.op = "preview" /\ returned.status = 200) =>
        /\ TagsMentioning(returned.body, Tags.link,
                          <<"s", "t", "y", "l", "e", "s", "h", "e", "e", "t">>) = {}
        /\ TagsMentioning(returned.body, Tags.script, <<"s", "r", "c", "=">>) = {}

\* the number of places of a text where a tag of the given name starts (letter
\* case ignored)
TagCount(text, name) ==
    With(Lower(text), LAMBDA low :
        Cardinality({i \in 1..(Len(low) - Len(name) + 1) :
                        SubSeq(low, i, i + Len(name) - 1) = name}))

\* the stored artifacts of the project a preview was asked for
Stored == get_all_files(storage, call.project_id)

\* C29: the preview of a markup that is a full document has one <style> block
\* and one <script> block only, the ones that hold the stored style and
\* behavior: the style block right before </head>, or right after <head> when
\* the markup has no </head>; the script block right before </body>, or at the
\* very end when the markup has no </body>.
C29_FullDocumentGetsOneBlockEach ==
    (call.op = "preview" /\ returned.status = 200) =>
        \E files \in {Stored}, doc \in {returned.body} :
        \E html \in {files["index.html"]},
           style \in {Block(Tags.style, Tags.style_close, files["style.css"])},
           script \in {Block(Tags.script, Tags.script_close, files["script.js"])} :
            LET EndsWith(t) == Len(doc) >= Len(t) /\ SubSeq(doc, Len(doc) - Len(t) + 1, Len(doc)) = t
            IN ~IsFragment(html) =>
                /\ TagCount(doc, Tags.style) = 1
                /\ TagCount(doc, Tags.script) = 1
                /\ Contains(doc, style)
                /\ Contains(doc, script)
                /\ Contains(html, Tags.head_close) =>
                      Contains(doc, style \o <<"\n">> \o Tags.head_close)
                /\ (~Contains(html, Tags.head_close) /\ Contains(html, Tags.head)) =>
                      Contains(doc, Tags.head \o <<"\n">> \o style)
                /\ Contains(html, Tags.body_close) =>
                      Contains(doc, script \o <<"\n">> \o Tags.body_close)
                /\ ~Contains(html, Tags.body_close) => EndsWith(script)

\* a text holds a block of the given tag around the content, laid out as the
\* injected block or as the block of the fragment template
HoldsBlock(text, name, close, content) ==
    \/ Contains(text, Block(name, close, content))
    \/ Contains(text, name \o <<">", "\n", " ", " ", " ", " ", " ", " ", " ", " ">> \o content
                           \o <<"\n", " ", " ", " ", " ">> \o close)

\* C21: whatever the stored markup, style and behavior are, a preview of a
\* project that exists answers with a document that holds the style in a
\* <style> block and the behavior in a <script> block, and when the markup has
\* no <head> tag the <style> block directly follows the markup.
C21_PreviewHoldsStyleAndBehavior ==
    (call.op = "preview" /\ call.found) =>
        \E files \in {Stored}, doc \in {returned.body} :
        \E html \in {files["index.html"]},
           style \in {Block(Tags.style, Tags.style_close, files["style.css"])} :
            /\ returned.status = 200
            /\ HoldsBlock(doc, Tags.style, Tags.style_close, files["style.css"])
            /\ HoldsBlock(doc, Tags.script, Tags.script_close, files["script.js"])
            /\ ~Contains(Lower(html), <<"<", "h", "e", "a", "d">>) =>
                  \/ Contains(doc, html \o style)
                  \/ Contains(doc, html \o <<"\n">> \o style)

C31_FragmentIsWrapped ==
    (call.op = "preview" /\ call.found) =>
        \E files \in {Stored}, doc \in {returned.body} :
        IsFragment(files["index.html"]) =>
            LET Deep == <<"\n", " ", " ", " ", " ", " ", " ", " ", " ">>
                Shallow == <<"\n", " ", " ", " ", " ">>
            IN
            \E fragment \in {files["index.html"], RemoveExternal(files["index.html"])},
               style \in {Tags.style \o <<">">> \o Deep \o files["style.css"]
                          \o Shallow \o Tags.style_close},
               script \in {Tags.script \o <<">">> \o Deep \o files["script.js"]
                           \o Shallow \o Tags.script_close} :
            \E head \in {Find(doc, Tags.head, 1)} :
            \E s \in {Find(doc, style, head + 1)} :
            \E head_close \in {Find(doc, Tags.head_close, head + 1)} :
            \E body \in {Find(doc, <<"<", "b", "o", "d", "y", ">">>, head_close + 1)} :
            \E f \in {Find(doc, fragment, body + 6)} :
            \E sc \in {Find(doc, script, f + Len(fragment))} :
                /\ returned.status = 200
                /\ StartsWith(doc, Tags.doctype)
                /\ head # 0 /\ s # 0 /\ head_close # 0 /\ body # 0 /\ f # 0 /\ sc # 0
                /\ s + Len(style) <= head_close
                /\ Find(doc, Tags.body_close, sc + Len(script)) # 0

C31_Witness ==
    /\ call.op = "preview" /\ call.found /\ returned.status = 200
    /\ \E files \in {Stored} :
         /\ IsFragment(files["index.html"])
         /\ files["index.html"] # RemoveExternal(files["index.html"])
         /\ files["style.css"] # <<>>
         /\ files["script.js"] # <<>>

\* C32: a run writes each artifact at most once, in the order index.html,
\* style.css, script.js, all three when it ends in complete; and the storage
\* accesses of two stages never overlap: the next stage has not started (no
\* task_start of its own) before the write of the stage before it is done.
C32_ArtifactsWrittenOnceInOrder ==
    LET writes == SelectSeq(trace, IsWrite)
        InOrder == <<"index.html", "style.css", "script.js">>
    IN /\ Len(writes) <= 3
       /\ \A i \in 1..Len(writes) : writes[i].file = InOrder[i]
       /\ (\E i \in 1..Len(trace) : IsComplete(trace[i])) => Len(writes) = 3
       /\ \A i, j \in 1..Len(trace) :
            (i < j /\ IsWrite(trace[i]) /\ IsWrite(trace[j])) =>
                \E m \in (i + 1)..(j - 1) : IsEventOf(trace[m], "task_start")

C32_Witness ==
    /\ \E i \in 1..Len(trace) : IsComplete(trace[i])
    /\ Len(SelectSeq(trace, IsWrite)) = 3
    /\ variant = "django"

\* C33: detect_design_type_from_prompt answers with the first of coffee_shop,
\* tech_startup, portfolio that has a keyword inside the lower-cased prompt, and
\* with None when none has; a category it answers with has a preset, which the
\* pipeline attaches to the profile, and with None the profile stays as
\* extracted.
C33_DesignTypeIsFirstKeywordMatch ==
    call.op = "detect_design_type" =>
        LET Order == <<"coffee_shop", "tech_startup", "portfolio">>
            Keywords ==
                << { <<"c", "o", "f", "f", "e", "e">>, <<"c", "a", "f", "e">>,
                     <<"c", "o", "f", "f", "e", "e", " ", "s", "h", "o", "p">> },
                   { <<"t", "e", "c", "h">>, <<"s", "t", "a", "r", "t", "u", "p">>,
                     <<"s", "a", "a", "s">>, <<"s", "o", "f", "t", "w", "a", "r", "e">> },
                   { <<"p", "o", "r", "t", "f", "o", "l", "i", "o">>,
                     <<"s", "h", "o", "w", "c", "a", "s", "e">>,
                     <<"g", "a", "l", "l", "e", "r", "y">> } >>
        IN \E low \in {Lower(call.prompt)} :
            LET Has(k) == \E word \in Keywords[k] : Contains(low, word)
            IN /\ \A k \in 1..3 :
                    returned.value = Order[k] <=>
                        (Has(k) /\ \A m \in 1..(k - 1) : ~Has(m))
               /\ returned.value = None <=> \A k \in 1..3 : ~Has(k)
               /\ returned.value # None =>
                    returned.requirements =
                        [call.requirements EXCEPT !.design_reference = returned.value]
               /\ returned.value = None => returned.requirements = call.requirements

C33_Witness ==
    /\ call.op = "detect_design_type"
    /\ returned.value = "tech_startup"
    /\ Contains(Lower(call.prompt), <<"p", "o", "r", "t", "f", "o", "l", "i", "o">>)

\* C34: in the streaming pipeline the content of a code_complete event is the
\* concatenation, in order, of the lines of the code_line events of its file
\* since the file's code_start; it is the content that was written for the
\* file, the write comes before the event, and file_size is its length.
C34_CodeCompleteCarriesStreamedLines ==
    \A i \in 1..Len(trace) :
        IsEventOf(trace[i], "code_complete") =>
            LET f == trace[i].file
                IsLine(e) == IsEventOf(e, "code_line") /\ e.file = f
            IN /\ trace[i].file_size = Len(trace[i].content)
               /\ \E w \in 1..(i - 1) :
                     /\ IsWrite(trace[w]) /\ trace[w].file = f
                     /\ trace[w].content = trace[i].content
               /\ \E s \in 1..(i - 1) :
                     /\ IsEventOf(trace[s], "code_start") /\ trace[s].file = f
                     /\ LET sent == SelectSeq(SubSeq(trace, s + 1, i - 1), IsLine)
                        IN Concat([n \in 1..Len(sent) |-> sent[n].line]) = trace[i].content
               /\ storage[project_id][f] = trace[i].content

C34_Witness ==
    \E i \in 1..Len(trace) :
        /\ IsEventOf(trace[i], "code_complete") /\ trace[i].file = "script.js"
        /\ Len(SelectSeq(trace, LAMBDA e : IsEventOf(e, "code_line") /\ e.file = "script.js")) > 1
        /\ trace[i].file_size > 2

\* C35: the task_complete event that follows a task_start event next carries
\* the task_id of that task_start, whatever todo list the todo stage returned.
C35_TaskStartMatchesNextTaskComplete ==
    \A i \in 1..Len(trace) :
        IsEventOf(trace[i], "task_start") =>
            \A j \in (i + 1)..Len(trace) :
                (/\ IsTaskComplete(trace[j])
                 /\ \A m \in (i + 1)..(j - 1) : ~IsTaskComplete(trace[m]))
                => trace[j].task_id = trace[i].task_id

\* C36: the intent field of every conversation event is conversation or ideas:
\* a reply of the intent call whose intent is missing or outside the three
\* intents never reaches the client as a conversation event with that value.
C36_ConversationIntentIsKnown ==
    \A i \in 1..Len(trace) :
        IsEventOf(trace[i], "conversation") =>
            trace[i].intent \in {"conversation", "ideas"}

\* ------------------------------------------- delete_project beside a run
\* delete_project_files: shutil.rmtree of the project directory when it exists
delete_project_files(st, id) == [x \in DOMAIN st \ {id} |-> st[x]]

\* DELETE requests served beside one run
MaxDeletions == 2

\* DELETE /projects/{project_id} for the id the project_created event told the
\* client: another request, served at any suspension point of the generator
\* while the run goes on; 404 without a record, else the files and then the
\* record are removed
DeleteProject ==
    LET Deleted(id, status) == [kind |-> "delete", project_id |-> id, status |-> status]
    IN
    /\ pc \notin {"finalized", "failed", "early_exit"}
    /\ Cardinality({i \in 1..Len(trace) : trace[i].kind = "delete"}) < MaxDeletions
    /\ \E id \in ProjectIds \cap {project_id} :
         IF id \notin DOMAIN projects
         THEN /\ trace' = Append(trace, Deleted(id, 404))
              /\ UNCHANGED world
         ELSE /\ storage' = delete_project_files(storage, id)
              /\ projects' = [x \in DOMAIN projects \ {id} |-> projects[x]]
              /\ trace' = Append(trace, Deleted(id, 204))
    /\ UNCHANGED <<request, pc, response, token_lookup, locals>>

NextDeletion == Next \/ DeleteProject

\* one run of the pipeline with DELETE requests of other clients beside it
SpecDeletion == Init /\ [][NextDeletion]_vars

\* C37: with delete_project interleaved with a running pipeline, an artifact
\* file exists in storage under a project id only while a project record with
\* that id exists; a write after the deletion does not bring the namespace back.
C37_ArtifactsOnlyUnderARecord ==
    \A id \in DOMAIN storage :
        DOMAIN storage[id] # {} => id \in DOMAIN projects

\* C38: for every provider variant, the usage of a chat_completion result has
\* three non-negative counts with total_tokens = prompt_tokens + completion_tokens.
C38_UsageTotalIsSum ==
    (call.op = "chat_completion" /\ returned.status = "returned") =>
        /\ returned.usage.prompt_tokens \in Nat
        /\ returned.usage.completion_tokens \in Nat
        /\ returned.usage.total_tokens \in Nat
        /\ returned.usage.total_tokens =
               returned.usage.prompt_tokens + returned.usage.completion_tokens

\* C39: save_file and get_file called with a filename outside index.html,
\* style.css and script.js raise an error and leave the storage as it was: the
\* rejected call writes no file, reads none and creates no project directory.
C39_RejectedFilenameLeavesStorage ==
    [][ (/\ call'.op \in {"save_file", "get_file"}
         /\ call' # call
         /\ call'.filename \notin ALLOWED_FILES)
        => /\ returned'.status = "raised"
           /\ returned'.error = "ValueError"
           /\ returned'.content = <<>>
           /\ storage' = storage ]_vars

\* both calls were rejected, and no project directory exists
C39_Witness ==
    /\ call.op = "get_file"
    /\ call.filename \notin ALLOWED_FILES
    /\ call.saved.filename \notin ALLOWED_FILES
    /\ call.saved.content # <<>>
    /\ returned.status = "raised"
    /\ returned.error = "ValueError"
    /\ storage = NoFun

====
